---- MODULE Spec2Model ----
(***************************************************************************)
(* Model of the DOCX template-editing pipeline of the bot:                 *)
(*   - document_parser.edit_docx_with_replacements (the replacement        *)
(*     engine) and document_parser.extract_text_from_docx,                 *)
(*   - the JSON extraction cascade and the outcome checks of               *)
(*     handlers.handle_text in template mode,                              *)
(*   - the per-user template session kept by ConversationManager.          *)
(* Text is a sequence of one-character strings.                            *)
(***************************************************************************)
EXTENDS Integers, Sequences, FiniteSets, TLC

VARIABLES
    \* one call of replace_in_paragraph (SpecParagraph)
    paragraph,      \* the paragraph object, mutated in place
    old_text,       \* key of the entry being applied
    new_text,       \* value of the entry being applied
    given,          \* the paragraph as it was passed in
    elsewhere,      \* another paragraph of the same document
    returned,       \* what the call returned
    \* one call of edit_docx_with_replacements (SpecEdit)
    file_data,      \* the document passed in
    replacements,   \* the mapping, as its items() in order
    edited,         \* what the call returned
    \* the JSON extraction of handle_text on one completion (SpecParse)
    ai_response,    \* the completion text, as a sequence of lexemes
    extracted,      \* the value of replacements after the three strategies
    \* the template session and the handlers that use it (Spec)
    template_mode,  \* ConversationManager._template_mode
    template_docs,  \* ConversationManager._template_docs
    template_names, \* ConversationManager._template_names
    calls,          \* the template-mode calls of handle_text, with their locals
    \* the Markdown renderer (SpecNumbering, SpecPreprocess, SpecRender)
    list_doc,       \* the document fix_numbered_lists works on, mutated in place
    list_given,     \* that document as it was passed in
    list_fixed,     \* whether fix_numbered_lists has returned
    markdown_text,  \* the argument of convert_markdown_to_docx, as lines
    converted,      \* what convert_markdown_to_docx returned
    renderings,     \* the conversions made so far, in order
    library,        \* what markdown and htmldocx do on each text
    \* the text extraction of uploaded files (SpecExtract)
    upload_data,    \* the bytes of the file
    upload_name,    \* its file name
    extracted_text, \* what extract_text_from_file returned
    doc_structure,  \* what get_docx_structure_for_ai returned
    \* the structural text on its way into the prompt (SpecPrompt)
    structure_text, \* the text get_docx_structure_for_ai returned
    prompt_structure, \* the text that stands in the prompt
    \* one call of get_chat_response (SpecCompletion)
    completion,     \* its locals, the requests it made and what it returned
    \* the delivery of responses and the response cache (SpecCache)
    response_cache, \* RESPONSE_CACHE: response id -> text
    delivered,      \* what the user was sent, in order
    handled,        \* the number of handler runs so far
    last_run,       \* the handler that ran last, and what it was given
    \* the ConversationManager of one user (SpecManager, SpecChat)
    manager,        \* the user's entries in the dictionaries of the manager
    user_file,      \* the user's JSON file in the data directory
    clock,          \* datetime.now(), in seconds
    ops,            \* the number of operations so far
    chats,          \* the calls of handle_text in the normal chat flow
    last_call       \* the manager method called last, its arguments and result

pvars == <<paragraph, old_text, new_text, given, elsewhere, returned>>
evars == <<file_data, replacements, edited>>
jvars == <<ai_response, extracted>>
svars == <<template_mode, template_docs, template_names, calls>>
rvars == <<list_doc, list_given, list_fixed, markdown_text, converted,
           renderings, library>>
xvars == <<upload_data, upload_name, extracted_text, doc_structure>>
tvars == <<structure_text, prompt_structure>>
gvars == <<completion>>
cvars == <<response_cache, delivered, handled, last_run>>
mvars == <<manager, user_file, clock, ops, chats, last_call>>
hvars == <<tvars, gvars, cvars, mvars>>
vars == <<pvars, evars, jvars, svars, rvars, xvars, hvars>>

(***************************************************************************)
(* Bounds of the model.                                                    *)
(***************************************************************************)
MaxRuns == 2        \* runs per paragraph (paragraph-level check)
MaxLen == 2         \* characters per run text and per key
MaxNewLen == 1      \* characters per replacement value
MaxEntries == 2     \* entries per replacement mapping (document-level check)
MaxResponse == 6    \* lexemes per completion (extraction check)
MaxCalls == 2       \* calls of handle_text in template mode (session check)

Chars == {"a", "b"}

\* A JSON value that is not a string (a number, null, a list, an object).
NotAString == <<"<non-str>">>

\* Results of a call: the Python value returned, or an exception leaving it.
PyTrue == "True"
PyFalse == "False"
Raised == "raised"

RECURSIVE StrsOfLen(_)
StrsOfLen(n) ==
    IF n = 0 THEN {<<>>}
    ELSE {<<c>> \o s : c \in Chars, s \in StrsOfLen(n - 1)}

Strs(n) == UNION {StrsOfLen(k) : k \in 0..n}

(***************************************************************************)
(* Python str operations used by the engine.                               *)
(***************************************************************************)

\* sub in s
Contains(s, sub) ==
    \E i \in 0..(Len(s) - Len(sub)) : SubSeq(s, i + 1, i + Len(sub)) = sub

\* s.replace("", new): new before every character and at the end.
RECURSIVE Interleave(_, _)
Interleave(s, new) ==
    IF s = <<>> THEN new
    ELSE new \o <<Head(s)>> \o Interleave(Tail(s), new)

\* s.replace(old, new): every non-overlapping occurrence, left to right.
RECURSIVE StrReplace(_, _, _)
StrReplace(s, old, new) ==
    IF old = <<>> THEN Interleave(s, new)
    ELSE IF Len(s) < Len(old) THEN s
    ELSE IF SubSeq(s, 1, Len(old)) = old
         THEN new \o StrReplace(SubSeq(s, Len(old) + 1, Len(s)), old, new)
         ELSE <<Head(s)>> \o StrReplace(Tail(s), old, new)

(***************************************************************************)
(* Paragraphs: an ordered sequence of runs.  A run is the object           *)
(* python-docx hands out: its identity (and formatting) is id, its       *)
(* text is text.                                                         *)
(***************************************************************************)
MkParagraph(texts) == [i \in 1..Len(texts) |-> [id |-> i, text |-> texts[i]]]

RECURSIVE SeqsOfLen(_, _)
SeqsOfLen(S, n) ==
    IF n = 0 THEN {<<>>}
    ELSE {<<x>> \o s : x \in S, s \in SeqsOfLen(S, n - 1)}

SeqsUpTo(S, n) == UNION {SeqsOfLen(S, k) : k \in 0..n}

\* paragraph.text: the run texts concatenated
RECURSIVE ConcatTexts(_, _)
ConcatTexts(runs, i) ==
    IF i > Len(runs) THEN <<>>
    ELSE runs[i].text \o ConcatTexts(runs, i + 1)

ParagraphText(p) == ConcatTexts(p, 1)

\* The first run whose text contains old_text (0: none does).
FirstRunWith(p, old) ==
    IF \E i \in 1..Len(p) : Contains(p[i].text, old)
    THEN CHOOSE i \in 1..Len(p) :
            /\ Contains(p[i].text, old)
            /\ \A j \in 1..(i - 1) : ~Contains(p[j].text, old)
    ELSE 0

\* Mutant: the fast path also clears the runs it does not rewrite.
FastPathClearsSiblings(p, i, old, new) ==
    [j \in 1..Len(p) |->
        [p[j] EXCEPT !.text = IF j = i THEN StrReplace(@, old, new) ELSE <<>>]]

\* Mutant: the slow path forgets to clear the runs after the first.
SlowPathKeepsOthers(p, old, new) ==
    [p EXCEPT ![1].text = StrReplace(ParagraphText(p), old, new)]

\* Mutant: the slow path deletes the runs after the first.
SlowPathDropsRuns(p, old, new) ==
    <<[p[1] EXCEPT !.text = StrReplace(ParagraphText(p), old, new)]>>

\* Fast path: replace inside the first run that holds old_text, then return.
FastPath(p, i, old, new) ==
    [p EXCEPT ![i].text = StrReplace(@, old, new)]

\* Slow path: the substituted full text goes to the first run, the other
\* runs keep their place with an empty text.
SlowPath(p, old, new) ==
    [i \in 1..Len(p) |->
        [p[i] EXCEPT !.text =
            IF i = 1 THEN StrReplace(ParagraphText(p), old, new) ELSE <<>>]]

\* replace_in_paragraph: the paragraph as left behind, what the call
\* returned (True, False, or Raised when str.replace rejects a non-string
\* value) and the branch that ran.
replace_in_paragraph(p, old, new) ==
    IF ~Contains(ParagraphText(p), old)
    THEN [paragraph |-> p, result |-> PyFalse, path |-> "none"]
    ELSE IF FirstRunWith(p, old) # 0
    THEN IF new = NotAString
         THEN [paragraph |-> p, result |-> Raised, path |-> "fast"]
         ELSE [paragraph |-> FastPath(p, FirstRunWith(p, old), old, new),
               result |-> PyTrue, path |-> "fast"]
    ELSE IF Len(p) > 0
    THEN IF new = NotAString
         THEN [paragraph |-> p, result |-> Raised, path |-> "slow"]
         ELSE [paragraph |-> SlowPath(p, old, new), result |-> PyTrue, path |-> "slow"]
    ELSE [paragraph |-> p, result |-> PyFalse, path |-> "none"]

(***************************************************************************)
(* Documents as python-docx exposes them: doc.paragraphs, doc.tables       *)
(* (rows of cells of paragraphs) and doc.sections (header and footer       *)
(* paragraphs).  The bytes of a document are modelled by the document      *)
(* they decode to; CorruptBytes decode to nothing.                         *)
(***************************************************************************)
CorruptBytes == [kind |-> "corrupt"]

MkDocument(body, tables, sections) ==
    [kind |-> "docx", paragraphs |-> body, tables |-> tables, sections |-> sections]

\* One loop for paragraph in ...: replace_in_paragraph(paragraph, old, new).
ReplaceInParagraphs(ps, old, new) ==
    [i \in 1..Len(ps) |-> replace_in_paragraph(ps[i], old, new).paragraph]

ParagraphsRaise(ps, old, new) ==
    \E i \in 1..Len(ps) : replace_in_paragraph(ps[i], old, new).result = Raised

\* replace_in_cell: every paragraph of the cell.
replace_in_cell(cell, old, new) == ReplaceInParagraphs(cell, old, new)

\* Mutant: the table loop stops after the first cell of each row.
ReplaceInTablesFirstCellOnly(tables, old, new) ==
    [t \in 1..Len(tables) |->
        [r \in 1..Len(tables[t]) |->
            [c \in 1..Len(tables[t][r]) |->
                IF c = 1 THEN replace_in_cell(tables[t][r][c], old, new)
                ELSE tables[t][r][c]]]]

\* for table in doc.tables: for row in table.rows: for cell in row.cells
ReplaceInTables(tables, old, new) ==
    [t \in 1..Len(tables) |->
        [r \in 1..Len(tables[t]) |->
            [c \in 1..Len(tables[t][r]) |->
                replace_in_cell(tables[t][r][c], old, new)]]]

TablesRaise(tables, old, new) ==
    \E t \in 1..Len(tables) : \E r \in 1..Len(tables[t]) :
        \E c \in 1..Len(tables[t][r]) :
            ParagraphsRaise(tables[t][r][c], old, new)

\* for section in doc.sections: header paragraphs, then footer paragraphs
ReplaceInSections(sections, old, new) ==
    [k \in 1..Len(sections) |->
        [header |-> ReplaceInParagraphs(sections[k].header, old, new),
         footer |-> ReplaceInParagraphs(sections[k].footer, old, new)]]

SectionsRaise(sections, old, new) ==
    \E k \in 1..Len(sections) :
        \/ ParagraphsRaise(sections[k].header, old, new)
        \/ ParagraphsRaise(sections[k].footer, old, new)

\* One iteration of for old_text, new_text in replacements.items():
\* a full pass over the document for one entry.
ApplyEntry(doc, old, new) ==
    [doc EXCEPT
        !.paragraphs = ReplaceInParagraphs(@, old, new),
        !.tables = ReplaceInTables(@, old, new),
        !.sections = ReplaceInSections(@, old, new)]

EntryRaises(doc, old, new) ==
    \/ ParagraphsRaise(doc.paragraphs, old, new)
    \/ TablesRaise(doc.tables, old, new)
    \/ SectionsRaise(doc.sections, old, new)

\* Mutant: the entries are applied last to first.
RECURSIVE ApplyEntriesReversed(_, _)
ApplyEntriesReversed(doc, items) ==
    IF items = <<>> THEN [result |-> "returned", doc |-> doc]
    ELSE LET e == items[Len(items)]
         IN IF EntryRaises(doc, e.old, e.new) THEN [result |-> Raised]
            ELSE ApplyEntriesReversed(ApplyEntry(doc, e.old, e.new),
                                      SubSeq(items, 1, Len(items) - 1))

\* Mutant: an entry that matches nothing ends the loop.
RECURSIVE ApplyEntriesStopAtMiss(_, _)
ApplyEntriesStopAtMiss(doc, items) ==
    IF items = <<>> THEN [result |-> "returned", doc |-> doc]
    ELSE LET e == Head(items)
         IN IF EntryRaises(doc, e.old, e.new) THEN [result |-> Raised]
            ELSE IF ApplyEntry(doc, e.old, e.new) = doc
            THEN [result |-> "returned", doc |-> doc]
            ELSE ApplyEntriesStopAtMiss(ApplyEntry(doc, e.old, e.new), Tail(items))

\* The loop over replacements.items(), in the mapping's order; an exception
\* of str.replace leaves the function at the entry that raised it.
RECURSIVE ApplyEntries(_, _)
ApplyEntries(doc, items) ==
    IF items = <<>> THEN [result |-> "returned", doc |-> doc]
    ELSE LET e == Head(items)
         IN IF EntryRaises(doc, e.old, e.new) THEN [result |-> Raised]
            ELSE ApplyEntries(ApplyEntry(doc, e.old, e.new), Tail(items))

\* edit_docx_with_replacements: Document(...) raises on bytes that are no
\* document; otherwise the passes run and the document is saved to bytes.
edit_docx_with_replacements(data, items) ==
    IF data.kind # "docx" THEN [result |-> Raised]
    ELSE ApplyEntries(data, items)

(***************************************************************************)
(* extract_text_from_docx                                                  *)
(***************************************************************************)
NL == "\n"
IsSpace(c) == c \in {" ", NL}

\* str.strip()
RECURSIVE LStrip(_)
LStrip(s) == IF s # <<>> /\ IsSpace(Head(s)) THEN LStrip(Tail(s)) ELSE s

RECURSIVE RStrip(_)
RStrip(s) ==
    IF s # <<>> /\ IsSpace(s[Len(s)]) THEN RStrip(SubSeq(s, 1, Len(s) - 1)) ELSE s

Strip(s) == LStrip(RStrip(s))

\* sep.join(parts)
RECURSIVE JoinFrom(_, _, _)
JoinFrom(sep, parts, i) ==
    IF i > Len(parts) THEN <<>>
    ELSE IF i = Len(parts) THEN parts[i]
    ELSE parts[i] \o sep \o JoinFrom(sep, parts, i + 1)

Join(sep, parts) == JoinFrom(sep, parts, 1)

\* [f(x) for x in xs if keep(x)] over texts: drop the blank ones
RECURSIVE NonBlankFrom(_, _)
NonBlankFrom(texts, i) ==
    IF i > Len(texts) THEN <<>>
    ELSE IF Strip(texts[i]) # <<>> THEN <<texts[i]>> \o NonBlankFrom(texts, i + 1)
    ELSE NonBlankFrom(texts, i + 1)

NonBlank(texts) == NonBlankFrom(texts, 1)

\* cell.text: the cell's paragraph texts joined by newlines
CellText(cell) == Join(<<NL>>, [i \in 1..Len(cell) |-> ParagraphText(cell[i])])

\* the " | ".join(...) line of one row (blank cells left out)
RowText(row) ==
    Join(<<" ", "|", " ">>,
         NonBlank([c \in 1..Len(row) |-> Strip(CellText(row[c]))]))

RECURSIVE FlattenRows(_, _)
FlattenRows(tables, t) ==
    IF t > Len(tables) THEN <<>> ELSE tables[t] \o FlattenRows(tables, t + 1)

\* f"Ошибка при чтении DOCX: {str(e)}", one lexeme
DocxReadError == <<"<DOCX read error>">>

\* doc is what Document(io.BytesIO(file_data)) makes of the bytes; bytes that
\* are no document make it raise inside the try, and the except branch
\* returns the error string
extract_text_from_docx(doc) ==
    IF doc.kind # "docx" THEN DocxReadError ELSE
    LET body == NonBlank([i \in 1..Len(doc.paragraphs) |->
                            ParagraphText(doc.paragraphs[i])])
        rows == FlattenRows(doc.tables, 1)
        rowTexts == NonBlank([r \in 1..Len(rows) |-> RowText(rows[r])])
    IN Join(<<NL>>, body \o rowTexts)

(***************************************************************************)
(* The completion text and json.loads.  A completion is a sequence of      *)
(* lexemes: "{", "}", ",", a whole member such as "a:b" (the JSON text     *)
(* "a": "b"), "a:" (a key and its colon, a value follows), "1" (a scalar   *)
(* that is not null), "null", "fence" (a code fence), "json", " " (white   *)
(* space) and "text" (prose that is no JSON).                              *)
(***************************************************************************)
FENCE == "fence"
ErrorMember == "_error:msg"
MemberLexemes == {"a:b", "b:c", "ab:c", ErrorMember}

\* The key and the value a member lexeme stands for.
MemberOf(lex) ==
    CASE lex = "a:b" -> [key |-> <<"a">>, value |-> <<"b">>]
      [] lex = "b:c" -> [key |-> <<"b">>, value |-> <<"c">>]
      [] lex = "ab:c" -> [key |-> <<"a", "b">>, value |-> <<"c">>]
      [] lex = ErrorMember -> [key |-> <<"_error">>, value |-> <<"msg">>]

\* Python values json.loads can return.
PyNone == [kind |-> "None", items |-> <<>>]
PyNumber == [kind |-> "number", items |-> <<>>]
PyDict(items) == [kind |-> "dict", items |-> items]

JsonFail == [ok |-> FALSE, value |-> PyNone, rest |-> <<>>]

\* dict[key] = value while the object is being built: a repeated key keeps
\* its place and takes the last value.
DictSet(items, key, value) ==
    IF \E i \in 1..Len(items) : items[i].old = key
    THEN [i \in 1..Len(items) |->
            IF items[i].old = key THEN [old |-> key, new |-> value] ELSE items[i]]
    ELSE Append(items, [old |-> key, new |-> value])

\* The JSON grammar over lexemes without white space: the value parsed at
\* the head of ts and what follows it.
RECURSIVE ParseValue(_), ParseMembers(_, _), AfterMember(_, _)
ParseValue(ts) ==
    IF ts = <<>> THEN JsonFail
    ELSE IF Head(ts) = "1" THEN [ok |-> TRUE, value |-> PyNumber, rest |-> Tail(ts)]
    ELSE IF Head(ts) = "null" THEN [ok |-> TRUE, value |-> PyNone, rest |-> Tail(ts)]
    ELSE IF Head(ts) = "{"
    THEN IF Len(ts) >= 2 /\ ts[2] = "}"
         THEN [ok |-> TRUE, value |-> PyDict(<<>>), rest |-> SubSeq(ts, 3, Len(ts))]
         ELSE ParseMembers(Tail(ts), <<>>)
    ELSE JsonFail

ParseMembers(ts, items) ==
    IF ts = <<>> THEN JsonFail
    ELSE IF Head(ts) \in MemberLexemes
    THEN AfterMember(Tail(ts),
                     DictSet(items, MemberOf(Head(ts)).key, MemberOf(Head(ts)).value))
    ELSE IF Head(ts) = "a:"
    THEN LET v == ParseValue(Tail(ts))
         IN IF v.ok THEN AfterMember(v.rest, DictSet(items, <<"a">>, NotAString))
            ELSE JsonFail
    ELSE JsonFail

AfterMember(ts, items) ==
    IF ts = <<>> THEN JsonFail
    ELSE IF Head(ts) = "," THEN ParseMembers(Tail(ts), items)
    ELSE IF Head(ts) = "}"
    THEN [ok |-> TRUE, value |-> PyDict(items), rest |-> Tail(ts)]
    ELSE JsonFail

RECURSIVE NoSpace(_)
NoSpace(ts) ==
    IF ts = <<>> THEN <<>>
    ELSE IF IsSpace(Head(ts)) THEN NoSpace(Tail(ts))
    ELSE <<Head(ts)>> \o NoSpace(Tail(ts))

\* json.loads: one value and nothing but white space around it; ok is
\* FALSE for JSONDecodeError.
JsonLoads(ts) ==
    LET r == ParseValue(NoSpace(ts))
    IN IF r.ok /\ r.rest = <<>> THEN [ok |-> TRUE, value |-> r.value]
       ELSE [ok |-> FALSE, value |-> PyNone]

(***************************************************************************)
(* The three strategies of handle_text.                                    *)
(***************************************************************************)
\* \s* from position i: the first position that holds no white space
RECURSIVE SkipSpace(_, _)
SkipSpace(ts, i) ==
    IF i <= Len(ts) /\ IsSpace(ts[i]) THEN SkipSpace(ts, i + 1) ELSE i

\* Whether ts[e] closes the group: "}" followed by \s* and a fence.
ClosesGroup(ts, e) ==
    /\ ts[e] = "}"
    /\ LET j == SkipSpace(ts, e + 1) IN j <= Len(ts) /\ ts[j] = FENCE

\* The regular expression fence(?:json)?\s*(\{.*?\})\s*fence tried at position
\* i: the bounds of group 1, or <<0, 0>> when it does not match there.
FenceMatchAt(ts, i) ==
    IF ts[i] # FENCE THEN <<0, 0>>
    ELSE LET afterTag == IF i + 1 <= Len(ts) /\ ts[i + 1] = "json" THEN i + 2 ELSE i + 1
             b == SkipSpace(ts, afterTag)
         IN IF b <= Len(ts) /\ ts[b] = "{"
               /\ \E e \in (b + 1)..Len(ts) : ClosesGroup(ts, e)
            THEN <<b, CHOOSE e \in (b + 1)..Len(ts) :
                        /\ ClosesGroup(ts, e)
                        /\ \A e2 \in (b + 1)..(e - 1) : ~ClosesGroup(ts, e2)>>
            ELSE <<0, 0>>

\* re.search: the match at the leftmost position that has one.
FenceSearch(ts) ==
    IF \E i \in 1..Len(ts) : FenceMatchAt(ts, i) # <<0, 0>>
    THEN FenceMatchAt(ts, CHOOSE i \in 1..Len(ts) :
                            /\ FenceMatchAt(ts, i) # <<0, 0>>
                            /\ \A i2 \in 1..(i - 1) : FenceMatchAt(ts, i2) = <<0, 0>>)
    ELSE <<0, 0>>

\* str.find / str.rfind of a lexeme: its first / last position, 0 for -1.
Find(ts, lex) ==
    IF \E i \in 1..Len(ts) : ts[i] = lex
    THEN CHOOSE i \in 1..Len(ts) : ts[i] = lex /\ \A j \in 1..(i - 1) : ts[j] # lex
    ELSE 0

RFind(ts, lex) ==
    IF \E i \in 1..Len(ts) : ts[i] = lex
    THEN CHOOSE i \in 1..Len(ts) : ts[i] = lex /\ \A j \in (i + 1)..Len(ts) : ts[j] # lex
    ELSE 0

\* Strategy 1: json.loads(ai_response.strip())
Strategy1(ts) == JsonLoads(Strip(ts))

\* Strategy 2: the first fenced block that holds braces
Strategy2(ts) ==
    LET g == FenceSearch(ts)
    IN IF g # <<0, 0>> THEN JsonLoads(SubSeq(ts, g[1], g[2]))
       ELSE [ok |-> FALSE, value |-> PyNone]

\* Mutant: the group is matched greedily, up to the last closing fence.
Strategy2Greedy(ts) ==
    LET b == IF \E i \in 1..Len(ts) : FenceMatchAt(ts, i) # <<0, 0>>
             THEN FenceSearch(ts)[1] ELSE 0
    IN IF b # 0
       THEN JsonLoads(SubSeq(ts, b, CHOOSE e \in (b + 1)..Len(ts) :
                                        /\ ClosesGroup(ts, e)
                                        /\ \A e2 \in (e + 1)..Len(ts) : ~ClosesGroup(ts, e2)))
       ELSE [ok |-> FALSE, value |-> PyNone]

\* Strategy 3: from the first "{" to the last "}"
Strategy3(ts) ==
    LET start_idx == Find(ts, "{")
        end_idx == RFind(ts, "}")
    IN IF start_idx # 0 /\ end_idx > start_idx
       THEN JsonLoads(SubSeq(ts, start_idx, end_idx))
       ELSE [ok |-> FALSE, value |-> PyNone]

\* Mutant: strategy 3 stops at the first "}".
Strategy3FirstClose(ts) ==
    LET start_idx == Find(ts, "{")
        end_idx == Find(ts, "}")
    IN IF start_idx # 0 /\ end_idx > start_idx
       THEN JsonLoads(SubSeq(ts, start_idx, end_idx))
       ELSE [ok |-> FALSE, value |-> PyNone]

\* Mutant: the strategies are tried last to first.
ExtractReplacementsBackwards(ts) ==
    IF Strategy3(ts).ok /\ Strategy3(ts).value # PyNone
    THEN [strategy |-> 3, value |-> Strategy3(ts).value]
    ELSE IF Strategy2(ts).ok /\ Strategy2(ts).value # PyNone
    THEN [strategy |-> 2, value |-> Strategy2(ts).value]
    ELSE IF Strategy1(ts).ok /\ Strategy1(ts).value # PyNone
    THEN [strategy |-> 1, value |-> Strategy1(ts).value]
    ELSE [strategy |-> 0, value |-> PyNone]

\* The cascade: each strategy runs only while replacements is None;
\* strategy is the one that set the value, 0 when it is still None.
ExtractReplacements(ts) ==
    IF Strategy1(ts).ok /\ Strategy1(ts).value # PyNone
    THEN [strategy |-> 1, value |-> Strategy1(ts).value]
    ELSE IF Strategy2(ts).ok /\ Strategy2(ts).value # PyNone
    THEN [strategy |-> 2, value |-> Strategy2(ts).value]
    ELSE IF Strategy3(ts).ok /\ Strategy3(ts).value # PyNone
    THEN [strategy |-> 3, value |-> Strategy3(ts).value]
    ELSE [strategy |-> 0, value |-> PyNone]

(***************************************************************************)
(* SpecParagraph: replace_in_paragraph on every paragraph, key and value   *)
(* within the bounds.                                                      *)
(***************************************************************************)
Paragraphs == {MkParagraph(ts) : ts \in SeqsUpTo(Strs(MaxLen), MaxRuns)}
Keys == Strs(MaxLen)
Values == Strs(MaxNewLen) \cup {NotAString}

\* No call has been made yet.
NotCalled == [result |-> "not called"]

ParagraphIdle ==
    /\ paragraph = <<>>
    /\ given = <<>>
    /\ elsewhere = <<>>
    /\ old_text = <<>>
    /\ new_text = <<>>
    /\ returned = NotCalled

EditIdle ==
    /\ file_data = [kind |-> "none"]
    /\ replacements = <<>>
    /\ edited = NotCalled

\* The strategies have not run yet.
NotExtracted == [strategy |-> -1, value |-> PyNone]

ParseIdle ==
    /\ ai_response = <<>>
    /\ extracted = NotExtracted

Users == {"u1"}

\* dict.get(user_id) on a user without an entry: None.
NoDoc == [kind |-> "None"]
NoName == <<"<None>">>

\* The ConversationManager after construction: no user is in template
\* mode, no template is stored, and no handler is running.
SessionIdle ==
    /\ template_mode = [u \in Users |-> FALSE]
    /\ template_docs = [u \in Users |-> NoDoc]
    /\ template_names = [u \in Users |-> NoName]
    /\ calls = <<>>

\* No document is being numbered and nothing has been converted.
RenderIdle ==
    /\ list_doc = <<>>
    /\ list_given = <<>>
    /\ list_fixed = FALSE
    /\ markdown_text = <<>>
    /\ converted = NotCalled
    /\ renderings = <<>>
    /\ library = <<>>

\* No file is being extracted.
ExtractIdle ==
    /\ upload_data = <<>>
    /\ upload_name = <<>>
    /\ extracted_text = NotCalled
    /\ doc_structure = NotCalled

\* No prompt is being built.
PromptIdle ==
    /\ structure_text = <<>>
    /\ prompt_structure = NotCalled

\* get_chat_response is not running.
CompletionIdle == completion = NotCalled

\* RESPONSE_CACHE = {} and nothing was sent.
CacheIdle ==
    /\ response_cache = <<>>
    /\ delivered = <<>>
    /\ handled = 0
    /\ last_run = NotCalled

\* No manager is under observation.
ManagerIdle ==
    /\ manager = NotCalled
    /\ user_file = NotCalled
    /\ clock = 0
    /\ ops = 0
    /\ chats = <<>>
    /\ last_call = NotCalled

\* The handlers outside the template session are at rest.
HandlersIdle == PromptIdle /\ CompletionIdle /\ CacheIdle /\ ManagerIdle

InitParagraph ==
    /\ given \in Paragraphs
    /\ paragraph = given
    /\ old_text \in Keys
    /\ new_text \in Values
    /\ elsewhere = MkParagraph(<<old_text, old_text>>)
    /\ returned = NotCalled
    /\ EditIdle
    /\ ParseIdle
    /\ SessionIdle
    /\ RenderIdle
    /\ ExtractIdle
    /\ HandlersIdle

ReplaceInParagraph ==
    /\ returned.result = "not called"
    /\ LET r == replace_in_paragraph(paragraph, old_text, new_text)
       IN /\ paragraph' = r.paragraph
          /\ returned' = r
    /\ UNCHANGED <<old_text, new_text, given, elsewhere, evars, jvars, svars, rvars, xvars, hvars>>

NextParagraph == ReplaceInParagraph

SpecParagraph == InitParagraph /\ [][NextParagraph]_vars

(***************************************************************************)
(* SpecEdit: edit_docx_with_replacements on documents with a body          *)
(* paragraph, a table of one row with two cells, and a section with a      *)
(* header and a footer paragraph.                                          *)
(***************************************************************************)
DocParagraphs ==
    {MkParagraph(ts) : ts \in {<<>>,
                               << <<"b">> >>,
                               << <<"a">>, <<"b">> >>,
                               << <<"a">>, <<"a">> >>}}

DocKeys == {<<"a">>, <<"b">>, <<"a", "b">>}
DocValues == {<<"b">>, <<"c">>, NotAString}

Documents ==
    {MkDocument(<<p>>,
                \* tables: one table of one row of two cells of one paragraph
                << << << <<c1>>, <<c2>> >> >> >>,
                <<[header |-> <<h>>, footer |-> <<f>>]>>) :
        p \in DocParagraphs, c1 \in DocParagraphs, c2 \in DocParagraphs,
        h \in DocParagraphs, f \in DocParagraphs}

Entries == {[old |-> k, new |-> v] : k \in DocKeys, v \in DocValues}

\* dict keys are unique
UniqueKeys(items) ==
    \A i \in 1..Len(items) : \A j \in 1..Len(items) :
        i # j => items[i].old # items[j].old

Mappings == {m \in SeqsUpTo(Entries, MaxEntries) : UniqueKeys(m)}

InitEdit ==
    /\ file_data \in Documents
    /\ replacements \in Mappings
    /\ edited = NotCalled
    /\ ParagraphIdle
    /\ ParseIdle
    /\ SessionIdle
    /\ RenderIdle
    /\ ExtractIdle
    /\ HandlersIdle

EditDocx ==
    /\ edited.result = "not called"
    /\ edited' = edit_docx_with_replacements(file_data, replacements)
    /\ UNCHANGED <<file_data, replacements, pvars, jvars, svars, rvars, xvars, hvars>>

NextEdit == EditDocx

SpecEdit == InitEdit /\ [][NextEdit]_vars

(***************************************************************************)
(* SpecParse: the three strategies on every completion of up to            *)
(* MaxResponse lexemes, and on some longer ones.                           *)
(***************************************************************************)
ResponseLexemes == {"{", "}", "a:b", FENCE, "json", " ", "text"}

LongerResponses ==
    {<<"text", " ", FENCE, "json", " ", "{", "a:b", ",", "b:c", "}", " ", FENCE, " ", "text">>,
     <<FENCE, "{", "a:", "{", "a:b", "}", "}", FENCE, "text">>,
     <<"text", "{", "a:", "{", "a:b", "}", ",", "b:c", "}", "text">>,
     <<"text", FENCE, "{", "a:b", "}", FENCE, "text", FENCE, "{", "b:c", "}", FENCE>>,
     <<"text", "{", "a:b", "}", "text", "{", "b:c", "}">>,
     <<" ", "{", "a:b", ",", ErrorMember, "}", " ">>,
     <<"null">>, <<"1">>, <<FENCE, "json", " ", "null", " ", FENCE>>}

InitParse ==
    /\ \/ \E n \in 0..MaxResponse : ai_response \in [1..n -> ResponseLexemes]
       \/ ai_response \in LongerResponses
    /\ extracted = NotExtracted
    /\ ParagraphIdle
    /\ EditIdle
    /\ SessionIdle
    /\ RenderIdle
    /\ ExtractIdle
    /\ HandlersIdle

ParseResponse ==
    /\ extracted.strategy = -1
    /\ extracted' = ExtractReplacements(ai_response)
    /\ UNCHANGED <<ai_response, pvars, evars, svars, rvars, xvars, hvars>>

NextParse == ParseResponse

SpecParse == InitParse /\ [][NextParse]_vars

(***************************************************************************)
(* Spec: the template session.  Users switch template mode, upload files   *)
(* and send change requests; every call of handle_text in template mode    *)
(* runs from one await to the next, interleaved with the other handlers.   *)
(***************************************************************************)
\* ConversationManager
is_template_mode(user_id) == template_mode[user_id]

get_template_doc(user_id) == template_docs[user_id]

get_template_name(user_id) == template_names[user_id]

set_template_mode(user_id, enabled) ==
    /\ template_mode' = [template_mode EXCEPT ![user_id] = enabled]
    /\ IF ~enabled
       THEN /\ template_docs' = [template_docs EXCEPT ![user_id] = NoDoc]
            /\ template_names' = [template_names EXCEPT ![user_id] = NoName]
       ELSE UNCHANGED <<template_docs, template_names>>

\* A variant that stores the bytes and leaves the filename as it was.
set_template_doc_KeepsName(user_id, doc_bytes, filename) ==
    /\ template_docs' = [template_docs EXCEPT ![user_id] = doc_bytes]
    /\ UNCHANGED template_names

set_template_doc(user_id, doc_bytes, filename) ==
    /\ template_docs' = [template_docs EXCEPT ![user_id] = doc_bytes]
    /\ template_names' = [template_names EXCEPT ![user_id] = filename]

\* File names are sequences of lexemes; "." is a lexeme of its own.

\* a comparison that keeps the case
LowerKeepsCase(lexeme) == lexeme

\* str.lower() of one lexeme of a file name
Lower(lexeme) ==
    CASE lexeme \in {"DOCX", "Docx"} -> "docx"
      [] lexeme \in {"PDF", "Pdf"} -> "pdf"
      [] lexeme \in {"TXT", "Txt"} -> "txt"
      [] OTHER -> lexeme

\* file_name.lower().endswith('.docx')
EndsWithDocx(file_name) ==
    /\ Len(file_name) >= 2
    /\ file_name[Len(file_name) - 1] = "."
    /\ Lower(file_name[Len(file_name)]) = "docx"

\* template_name.rsplit('.', 1)[0]
RSplitBase(name) ==
    IF \E i \in 1..Len(name) : name[i] = "."
    THEN LET last == CHOOSE i \in 1..Len(name) :
                        /\ name[i] = "."
                        /\ \A j \in (i + 1)..Len(name) : name[j] # "."
         IN SubSeq(name, 1, last - 1)
    ELSE name

\* f"{base_name}_edited.docx"
NewFilename(template_name) ==
    LET base_name == IF template_name # NoName /\ template_name # <<>>
                     THEN RSplitBase(template_name)
                     ELSE <<"document">>
    IN base_name \o <<"_edited", ".", "docx">>

\* What the user is shown by a call: the text of the status message (or of
\* the reply), and the part of it that comes from the completion.
Shown(text, detail) == [text |-> text, detail |-> detail]
SendTemplateFirst == Shown("send a DOCX document first", <<>>)
Analysing == Shown("analysing the document", <<>>)
Unparseable == Shown("could not parse the answer", <<>>)
Ambiguous(message) == Shown("ambiguous", message)
NoChanges == Shown("did not understand what to replace", <<>>)
Applying == Shown("applying the changes", <<>>)
EditFailed == Shown("error while editing", <<>>)
Deleted == Shown("<deleted>", <<>>)

\* No document has been sent to the user.
NoFile == [bytes |-> NoDoc, filename |-> NoName]

ErrorKey == <<"_error">>

\* key in replacements
HasKey(items, key) == \E i \in 1..Len(items) : items[i].old = key

\* replacements[key]
DictGet(items, key) ==
    items[CHOOSE i \in 1..Len(items) : items[i].old = key].new

\* A variant that reports an ambiguous request only when the reserved key
\* is the only key of the object.
InterpretResponseErrorKeyAlone(response) ==
    LET value == ExtractReplacements(response).value
    IN IF value = PyNone
       THEN [outcome |-> "UnparseableResponse", status |-> Unparseable,
             replacements |-> value]
       ELSE IF value.kind # "dict"
       THEN [outcome |-> Raised, status |-> Analysing, replacements |-> value]
       ELSE IF HasKey(value.items, ErrorKey) /\ Len(value.items) = 1
       THEN [outcome |-> "AmbiguousRequest",
             status |-> Ambiguous(DictGet(value.items, ErrorKey)),
             replacements |-> value]
       ELSE IF value.items = <<>>
       THEN [outcome |-> "NoChangesIdentified", status |-> NoChanges,
             replacements |-> value]
       ELSE [outcome |-> "edit", status |-> Applying, replacements |-> value]

\* handle_text from the completion to the message it shows: the extraction
\* and the three checks on its result.  On a value that is no object the
\* test for the reserved key raises and the status message stays as it was.
InterpretResponse(response) ==
    LET value == ExtractReplacements(response).value
    IN IF value = PyNone
       THEN [outcome |-> "UnparseableResponse", status |-> Unparseable,
             replacements |-> value]
       ELSE IF value.kind # "dict"
       THEN [outcome |-> Raised, status |-> Analysing, replacements |-> value]
       ELSE IF HasKey(value.items, ErrorKey)
       THEN [outcome |-> "AmbiguousRequest",
             status |-> Ambiguous(DictGet(value.items, ErrorKey)),
             replacements |-> value]
       ELSE IF value.items = <<>>
       THEN [outcome |-> "NoChangesIdentified", status |-> NoChanges,
             replacements |-> value]
       ELSE [outcome |-> "edit", status |-> Applying, replacements |-> value]

\* The files users upload and the completions the model gives.
TemplateDocument ==
    MkDocument(<<MkParagraph(<< <<"a">>, <<"b">> >>)>>,
               << << << <<MkParagraph(<< <<"a">> >>)>>,
                        <<MkParagraph(<< <<"b">> >>)>> >> >> >>,
               <<[header |-> <<MkParagraph(<< <<"a">>, <<"a">> >>)>>,
                  footer |-> <<MkParagraph(<<>>)>>]>>)

UploadedFiles == {TemplateDocument, CorruptBytes}

UploadedNames == {<<"t", ".", "v2", ".", "DOCX">>, <<"t", ".", "pdf">>}

Completions ==
    {<<"{", "a:b", "}">>,
     <<"text", FENCE, "json", "{", "b:c", "}", FENCE>>,
     <<"text">>,
     <<"{", ErrorMember, ",", "a:b", "}">>,
     <<"{", "}">>,
     <<"{", "a:", "1", "}">>,
     <<"1">>}

\* Where sending the edited document can fail.
DeliveryFailures == {"none", "delete", "reply_document"}

Init ==
    /\ SessionIdle
    /\ RenderIdle
    /\ ExtractIdle
    /\ HandlersIdle
    /\ ParagraphIdle
    /\ EditIdle
    /\ ParseIdle

\* The button that switches template mode on and off.
btn_template_mode(user_id) ==
    /\ IF is_template_mode(user_id)
       THEN set_template_mode(user_id, FALSE)
       ELSE set_template_mode(user_id, TRUE)
    /\ UNCHANGED <<calls, pvars, evars, jvars,
                   rvars, xvars, hvars>>

\* An upload, from the download of the file on.  Outside template mode the
\* file goes to the conversation and the template session is not touched.
handle_document(user_id, file_bytes, file_name) ==
    /\ IF is_template_mode(user_id) /\ EndsWithDocx(file_name)
       THEN set_template_doc(user_id, file_bytes, file_name)
       ELSE UNCHANGED <<template_docs, template_names>>
    /\ UNCHANGED <<template_mode, calls, pvars, evars, jvars,
                   rvars, xvars, hvars>>

\* The locals of a call of handle_text that waits for the completion.
NewCall(user_id, template_doc, template_name) ==
    [user |-> user_id, pc |-> "llm",
     template_doc |-> template_doc, template_name |-> template_name,
     ai_response |-> <<>>, replacements |-> PyNone,
     engine |-> NotCalled, edited_doc |-> NoDoc, new_filename |-> NoName,
     status |-> Analysing, document |-> NoFile, outcome |-> "none"]

\* A change request, up to the call of the completion service.
handle_text(user_id) ==
    /\ Len(calls) < MaxCalls
    /\ is_template_mode(user_id)
    /\ LET template_doc == get_template_doc(user_id)
           template_name == get_template_name(user_id)
           c == NewCall(user_id, template_doc, template_name)
       IN calls' = Append(calls,
            IF template_doc.kind = "None"
            THEN [c EXCEPT !.pc = "done", !.status = SendTemplateFirst,
                           !.outcome = "NoTemplate"]
            ELSE IF template_doc.kind # "docx"
            \* get_docx_structure_for_ai raises
            THEN [c EXCEPT !.pc = "done", !.outcome = Raised]
            ELSE c)
    /\ UNCHANGED <<template_mode, template_docs, template_names,
                   pvars, evars, jvars,
                   rvars, xvars, hvars>>

\* The completion arrives: extraction and the checks on its result.
handle_text_interpret(i, response) ==
    /\ calls[i].pc = "llm"
    /\ LET r == InterpretResponse(response)
       IN calls' = [calls EXCEPT ![i] =
            [@ EXCEPT !.ai_response = response,
                      !.replacements = r.replacements,
                      !.status = r.status,
                      !.outcome = IF r.outcome = "edit" THEN "none" ELSE r.outcome,
                      !.pc = IF r.outcome = "edit" THEN "applying" ELSE "done"]]
    /\ UNCHANGED <<template_mode, template_docs, template_names,
                   pvars, evars, jvars,
                   rvars, xvars, hvars>>

\* The edit of the template the call read when it started.
handle_text_edit(i) ==
    /\ calls[i].pc = "applying"
    /\ LET e == edit_docx_with_replacements(calls[i].template_doc,
                                            calls[i].replacements.items)
       IN calls' = [calls EXCEPT ![i] =
            IF e.result = Raised
            THEN [@ EXCEPT !.engine = e, !.status = EditFailed,
                           !.outcome = "EditError", !.pc = "done"]
            ELSE [@ EXCEPT !.engine = [result |-> e.result],
                           !.edited_doc = e.doc,
                           !.new_filename = NewFilename(calls[i].template_name),
                           !.pc = "delivering"]]
    /\ UNCHANGED <<template_mode, template_docs, template_names,
                   pvars, evars, jvars,
                   rvars, xvars, hvars>>

\* The status message is deleted, the document is sent and, when both
\* succeeded, stored as the new template.  When the deletion fails the
\* error is shown in the status message; when the sending fails the status
\* message is gone and the attempt to show the error raises.
handle_text_deliver(i, failure) ==
    /\ calls[i].pc = "delivering"
    /\ IF failure = "none"
       THEN /\ calls' = [calls EXCEPT ![i] =
                    [@ EXCEPT !.status = Deleted,
                              !.document = [bytes |-> calls[i].edited_doc,
                                            filename |-> calls[i].new_filename],
                              !.outcome = "Delivered", !.pc = "done"]]
            /\ set_template_doc(calls[i].user, calls[i].edited_doc,
                                calls[i].new_filename)
       ELSE /\ calls' = [calls EXCEPT ![i] =
                    IF failure = "delete"
                    THEN [@ EXCEPT !.status = EditFailed,
                                   !.outcome = "EditError", !.pc = "done"]
                    ELSE [@ EXCEPT !.status = Deleted,
                                   !.outcome = Raised, !.pc = "done"]]
            /\ UNCHANGED <<template_docs, template_names>>
    /\ UNCHANGED <<template_mode, pvars, evars, jvars,
                   rvars, xvars, hvars>>

Next ==
    \/ \E u \in Users : btn_template_mode(u)
    \/ \E u \in Users : \E f \in UploadedFiles : \E n \in UploadedNames :
            handle_document(u, f, n)
    \/ \E u \in Users : handle_text(u)
    \/ \E i \in 1..Len(calls) : \E r \in Completions :
            handle_text_interpret(i, r)
    \/ \E i \in 1..Len(calls) : handle_text_edit(i)
    \/ \E i \in 1..Len(calls) : \E f \in DeliveryFailures :
            handle_text_deliver(i, f)

Spec == Init /\ [][Next]_vars

(***************************************************************************)
(* Properties of the replacement engine                                    *)
(***************************************************************************)
Called == returned.result # "not called"
Edited == edited.result = "returned"

\* The places of a document that hold a paragraph.
Places(doc) ==
    {[in |-> "body", i |-> i] : i \in 1..Len(doc.paragraphs)}
    \cup UNION {UNION {UNION {
            {[in |-> "cell", t |-> t, r |-> r, c |-> c, i |-> i] :
                i \in 1..Len(doc.tables[t][r][c])} :
            c \in 1..Len(doc.tables[t][r])} :
            r \in 1..Len(doc.tables[t])} :
            t \in 1..Len(doc.tables)}
    \cup UNION {{[in |-> "header", k |-> k, i |-> i] :
                    i \in 1..Len(doc.sections[k].header)} :
                k \in 1..Len(doc.sections)}
    \cup UNION {{[in |-> "footer", k |-> k, i |-> i] :
                    i \in 1..Len(doc.sections[k].footer)} :
                k \in 1..Len(doc.sections)}

At(doc, pl) ==
    CASE pl.in = "body" -> doc.paragraphs[pl.i]
      [] pl.in = "cell" -> doc.tables[pl.t][pl.r][pl.c][pl.i]
      [] pl.in = "header" -> doc.sections[pl.k].header[pl.i]
      [] pl.in = "footer" -> doc.sections[pl.k].footer[pl.i]

\* The entries applied one after another to a text, every occurrence each.
RECURSIVE TextAfter(_, _, _)
TextAfter(text, items, n) ==
    IF n = 0 THEN text
    ELSE StrReplace(TextAfter(text, items, n - 1), items[n].old, items[n].new)

\* The entries applied one after another to one paragraph.
RECURSIVE ParagraphAfter(_, _, _)
ParagraphAfter(p, items, n) ==
    IF n = 0 THEN p
    ELSE replace_in_paragraph(ParagraphAfter(p, items, n - 1),
                              items[n].old, items[n].new).paragraph

\* The document after the first n full passes.
RECURSIVE DocAfterPasses(_, _, _)
DocAfterPasses(doc, items, n) ==
    IF n = 0 THEN doc
    ELSE ApplyEntry(DocAfterPasses(doc, items, n - 1), items[n].old, items[n].new)

RunIds(p) == [i \in 1..Len(p) |-> p[i].id]

\* C1: when every key of the mapping occurs in the document's text, the
\* text extracted from the edited document is the original text with every
\* occurrence of each key replaced by its value, entries in mapping order.
C1_EveryOccurrenceReplaced ==
    (/\ Edited
     /\ \A n \in 1..Len(replacements) :
            Contains(extract_text_from_docx(file_data), replacements[n].old))
    => extract_text_from_docx(edited.doc)
       = TextAfter(extract_text_from_docx(file_data), replacements, Len(replacements))

\* The key is in the paragraph's text but in no single run: every
\* occurrence is split by a run boundary.
SpansRuns(p, old) ==
    /\ old # <<>>
    /\ Contains(ParagraphText(p), old)
    /\ \A i \in 1..Len(p) : ~Contains(p[i].text, old)

\* C2: when a key is contained in the paragraph's concatenated run text but
\* split by a run boundary, the fast path does not fire; the first run then
\* holds the whole substituted text, every other run is empty, and the
\* paragraph's text is the original text with the key substituted.
C2_SpanningKeyTakesSlowPath ==
    (Called /\ SpansRuns(given, old_text) /\ new_text # NotAString)
    => /\ returned.path = "slow"
       /\ returned.result = PyTrue
       /\ paragraph[1].text = StrReplace(ParagraphText(given), old_text, new_text)
       /\ \A i \in 2..Len(paragraph) : paragraph[i].text = <<>>
       /\ ParagraphText(paragraph)
          = StrReplace(ParagraphText(given), old_text, new_text)

C2_Witness ==
    /\ Called
    /\ SpansRuns(given, old_text)
    /\ returned.path = "slow"
    /\ Len(given) = 2
    /\ given[2].text # <<>>
    /\ paragraph[2].text = <<>>
    /\ ParagraphText(paragraph) # ParagraphText(given)

\* C3: when a key is contained in the text of a single run, the fast path
\* changes the text of that run only: every sibling run, and every other
\* paragraph, is what it was before.
C3_FastPathFrame ==
    (Called /\ FirstRunWith(given, old_text) # 0 /\ new_text # NotAString)
    => /\ returned.path = "fast"
       /\ Len(paragraph) = Len(given)
       /\ \A i \in 1..Len(given) :
            IF i = FirstRunWith(given, old_text)
            THEN /\ paragraph[i].id = given[i].id
                 /\ paragraph[i].text = StrReplace(given[i].text, old_text, new_text)
            ELSE paragraph[i] = given[i]
       /\ elsewhere = MkParagraph(<<old_text, old_text>>)

C3_Witness ==
    /\ Called
    /\ returned.path = "fast"
    /\ Len(given) = 2
    /\ FirstRunWith(given, old_text) = 1
    /\ paragraph[1].text # given[1].text
    /\ given[2].text # <<>>
    /\ paragraph[2] = given[2]

\* C4: every entry's paragraph-level replacement reaches the body
\* paragraphs, the paragraphs of every cell of every table and every header
\* and footer paragraph; a key occurring in one of these places is replaced
\* there, and a paragraph whose text holds no key is not altered.
C4_EveryPlaceIsEdited ==
    Edited =>
        /\ Places(edited.doc) = Places(file_data)
        /\ \A pl \in Places(file_data) :
            LET before == At(file_data, pl)
                after == At(edited.doc, pl)
            IN /\ after = ParagraphAfter(before, replacements, Len(replacements))
               /\ (\A n \in 1..Len(replacements) :
                       ~Contains(ParagraphText(before), replacements[n].old))
                  => after = before
               /\ (/\ Len(replacements) = 1
                   /\ Len(before) > 0
                   /\ Contains(ParagraphText(before), replacements[1].old)
                   /\ replacements[1].new # replacements[1].old)
                  => ParagraphText(after) # ParagraphText(before)

\* The scenario: both the body paragraph and a table cell are updated by a
\* two-entry mapping, a place that holds no key keeps its text.
C4_Witness ==
    /\ Edited
    /\ Len(replacements) = 2
    /\ At(edited.doc, [in |-> "body", i |-> 1]) # At(file_data, [in |-> "body", i |-> 1])
    /\ At(edited.doc, [in |-> "cell", t |-> 1, r |-> 1, c |-> 2, i |-> 1])
       # At(file_data, [in |-> "cell", t |-> 1, r |-> 1, c |-> 2, i |-> 1])
    /\ At(edited.doc, [in |-> "footer", k |-> 1, i |-> 1])
       # At(file_data, [in |-> "footer", k |-> 1, i |-> 1])
    /\ Len(At(file_data, [in |-> "header", k |-> 1, i |-> 1])) > 0
    /\ At(edited.doc, [in |-> "header", k |-> 1, i |-> 1])
       = At(file_data, [in |-> "header", k |-> 1, i |-> 1])

\* C5: the entries are applied as separate full-document passes in mapping
\* order: the result is entry 1 applied to the whole document, then entry 2
\* applied to that result, and so on, so a later entry sees what an earlier
\* one inserted and an earlier one never sees what a later one inserted.
C5_PassesInMappingOrder ==
    Edited =>
        edited.doc = DocAfterPasses(file_data, replacements, Len(replacements))

\* An earlier entry (a -> b) inserted the later entry's key, and the later
\* entry (b -> c) replaced what it inserted.
C5_Witness ==
    /\ Edited
    /\ Len(replacements) = 2
    /\ replacements[1].new = replacements[2].old
    /\ LET pl == [in |-> "body", i |-> 1]
       IN /\ ~Contains(ParagraphText(At(file_data, pl)), replacements[2].old)
          /\ Contains(ParagraphText(At(file_data, pl)), replacements[1].old)
          /\ Contains(ParagraphText(At(edited.doc, pl)), replacements[2].new)
          /\ ~Contains(ParagraphText(At(edited.doc, pl)), replacements[2].old)

\* C6: the edit never adds, removes or reorders runs: every paragraph keeps
\* its runs in their order, only run text changes.
C6_RunsArePreserved ==
    Edited =>
        /\ Places(edited.doc) = Places(file_data)
        /\ \A pl \in Places(file_data) :
            RunIds(At(edited.doc, pl)) = RunIds(At(file_data, pl))

\* The slow path ran in a place: the runs are all still there, one emptied.
C6_Witness ==
    /\ Edited
    /\ \E pl \in Places(file_data) :
        /\ Len(At(file_data, pl)) = 2
        /\ At(file_data, pl)[2].text # <<>>
        /\ At(edited.doc, pl)[2].text = <<>>
        /\ Len(At(edited.doc, pl)) = 2

KeyNowhere(doc, old) ==
    \A pl \in Places(doc) : ~Contains(ParagraphText(At(doc, pl)), old)

Without(items, n) ==
    SubSeq(items, 1, n - 1) \o SubSeq(items, n + 1, Len(items))

\* C7: an entry whose key occurs nowhere in the document when its pass
\* begins is a silent no-op: its pass changes no run, raises nothing
\* whatever its value, and the outcome of the edit is the outcome of the
\* mapping without that entry, so the other entries are still applied.
C7_MissingKeyIsNoOp ==
    (edited.result # "not called") =>
        \A n \in 1..Len(replacements) :
            LET d == DocAfterPasses(file_data, replacements, n - 1)
                e == replacements[n]
            IN KeyNowhere(d, e.old)
               => /\ ApplyEntry(d, e.old, e.new) = d
                  /\ ~EntryRaises(d, e.old, e.new)
                  /\ edited = edit_docx_with_replacements(file_data,
                                                          Without(replacements, n))

\* The first entry matches nothing and carries a non-string value; the
\* second entry is applied all the same.
C7_Witness ==
    /\ Edited
    /\ Len(replacements) = 2
    /\ KeyNowhere(file_data, replacements[1].old)
    /\ replacements[1].new = NotAString
    /\ edited.doc # file_data

(***************************************************************************)
(* Properties of the JSON extraction                                       *)
(***************************************************************************)
Extracted == extracted.strategy # -1

\* ts[b..e] is the text of a JSON object.
ObjectAt(ts, b, e) ==
    /\ 1 <= b /\ b < e /\ e <= Len(ts)
    /\ ts[b] = "{" /\ ts[e] = "}"
    /\ JsonLoads(SubSeq(ts, b, e)).ok

\* The JSON objects embedded in ts that lie in no larger one.
EmbeddedObjects(ts) ==
    {be \in (1..Len(ts)) \X (1..Len(ts)) :
        /\ ObjectAt(ts, be[1], be[2])
        /\ \A b2 \in 1..be[1] : \A e2 \in be[2]..Len(ts) :
              ObjectAt(ts, b2, e2) => (b2 = be[1] /\ e2 = be[2])}

HasFence(ts) == \E t \in 1..Len(ts) : ts[t] = FENCE

\* Something other than white space lies outside ts[b..e].
ProseAround(ts, b, e) ==
    \E t \in 1..Len(ts) : (t < b \/ t > e) /\ ~IsSpace(ts[t])

\* ts[b..e] is a JSON object inside the first fenced block of ts: the
\* fence at o is the first one, an optional "json" and white space lead to
\* the object, white space and a fence follow it.
FencedObject(ts, o, b, e) ==
    /\ o < b
    /\ ts[o] = FENCE
    /\ \A t \in 1..(o - 1) : ts[t] # FENCE
    /\ b = SkipSpace(ts, IF ts[o + 1] = "json" THEN o + 2 ELSE o + 1)
    /\ ObjectAt(ts, b, e)
    /\ SkipSpace(ts, e + 1) <= Len(ts)
    /\ ts[SkipSpace(ts, e + 1)] = FENCE

\* (a) a response that is a JSON object is taken by strategy 1
WholeResponseCase ==
    (JsonLoads(Strip(ai_response)).ok /\ JsonLoads(Strip(ai_response)).value.kind = "dict")
    => extracted = [strategy |-> 1, value |-> JsonLoads(Strip(ai_response)).value]

\* (b) an object in a fenced block, commentary before or after: strategy 2
FencedCase ==
    \A o \in 1..Len(ai_response) : \A b \in 1..Len(ai_response) :
        \A e \in 1..Len(ai_response) :
            FencedObject(ai_response, o, b, e)
            => extracted = [strategy |-> 2,
                            value |-> JsonLoads(SubSeq(ai_response, b, e)).value]

\* (c) prose with exactly one JSON object embedded: strategy 3
ProseCaseAsClaimed ==
    (~HasFence(ai_response) /\ Cardinality(EmbeddedObjects(ai_response)) = 1)
    => LET be == CHOOSE x \in EmbeddedObjects(ai_response) : TRUE
       IN ProseAround(ai_response, be[1], be[2])
          => extracted = [strategy |-> 3,
                          value |-> JsonLoads(SubSeq(ai_response, be[1], be[2])).value]

\* (c) the same, for prose that has no "{" before the object and no "}"
\* after it
ProseCase ==
    \A b \in 1..Len(ai_response) : \A e \in 1..Len(ai_response) :
        (/\ ~HasFence(ai_response)
         /\ ObjectAt(ai_response, b, e)
         /\ \A t \in 1..(b - 1) : ai_response[t] # "{"
         /\ \A t \in (e + 1)..Len(ai_response) : ai_response[t] # "}"
         /\ ProseAround(ai_response, b, e))
        => extracted = [strategy |-> 3,
                        value |-> JsonLoads(SubSeq(ai_response, b, e)).value]

Produced(r) == r.ok /\ r.value # PyNone

\* (d) a later strategy is used only when every earlier one produced nothing
LaterOnlyAfterEarlierFailed ==
    /\ extracted.strategy = 2 => ~Produced(Strategy1(ai_response))
    /\ extracted.strategy = 3 =>
        ~Produced(Strategy1(ai_response)) /\ ~Produced(Strategy2(ai_response))
    /\ extracted.strategy = 0 =>
        /\ ~Produced(Strategy1(ai_response))
        /\ ~Produced(Strategy2(ai_response))
        /\ ~Produced(Strategy3(ai_response))

\* C8 as claimed: a response that is a JSON object is taken by strategy 1;
\* an object in a fenced block with commentary around it is recovered by
\* strategy 2; prose with exactly one JSON object embedded is recovered by
\* strategy 3; a later strategy is used only when the earlier ones produced
\* nothing.
C8_AsClaimed ==
    Extracted =>
        /\ WholeResponseCase
        /\ FencedCase
        /\ ProseCaseAsClaimed
        /\ LaterOnlyAfterEarlierFailed

\* C8 as amended: the same, where strategy 3 recovers the embedded object
\* when the prose has no "{" before it and no "}" after it.
C8_Cascade ==
    Extracted =>
        /\ WholeResponseCase
        /\ FencedCase
        /\ ProseCase
        /\ LaterOnlyAfterEarlierFailed

\* Prose on both sides of one (nested) object: strategies 1 and 2 produce
\* nothing and strategy 3 recovers the object.
C8_Witness ==
    /\ Extracted
    /\ ~HasFence(ai_response)
    /\ Cardinality(EmbeddedObjects(ai_response)) = 1
    /\ ai_response[1] = "text"
    /\ ai_response[Len(ai_response)] = "text"
    /\ extracted.strategy = 3
    /\ Len(extracted.value.items) = 2

(***************************************************************************)
(* Properties of the template session                                      *)
(***************************************************************************)
InterpreterErrors ==
    {"UnparseableResponse", "AmbiguousRequest", "NoChangesIdentified"}

\* Call i takes the step from the completion to its outcome.
Interprets(i) == calls[i].pc = "llm" /\ calls'[i].pc # "llm"

\* A call of handle_text starts in this step.
Starts == Len(calls') > Len(calls)

\* The message each interpreter error shows.
MessageOf(c) ==
    CASE c.outcome = "UnparseableResponse" -> Unparseable
      [] c.outcome = "AmbiguousRequest" ->
            Ambiguous(DictGet(c.replacements.items, ErrorKey))
      [] c.outcome = "NoChangesIdentified" -> NoChanges

Delivers(i) == calls[i].pc = "delivering" /\ calls'[i].outcome = "Delivered"

\* The templates a call can find stored: an upload, or the result an
\* earlier call of the same user delivered, under the name it was given.
Uploads ==
    {[doc |-> f, name |-> n] :
        f \in UploadedFiles, n \in {m \in UploadedNames : EndsWithDocx(m)}}

DeliveredBefore(j) ==
    {[doc |-> calls[i].edited_doc, name |-> calls[i].new_filename] :
        i \in {k \in 1..(j - 1) : /\ calls[k].outcome = "Delivered"
                                  /\ calls[k].user = calls[j].user}}

\* C10: when a call has edited its template and sent the result, the
\* stored template is the edited document, which is the document that was
\* sent, and its name is the name the call read without its extension,
\* followed by "_edited.docx"; a call that starts reads the template and
\* the name stored at that moment, so a request that follows a delivered
\* edit works on the edited document.
C10_IterativeRefinement ==
    /\ [](\A j \in 1..Len(calls) :
            calls[j].template_doc.kind # "None" =>
                [doc |-> calls[j].template_doc, name |-> calls[j].template_name]
                    \in Uploads \cup DeliveredBefore(j))
    /\ [][/\ \A i \in 1..Len(calls) : Delivers(i) =>
                LET c == calls[i]
                    e == edit_docx_with_replacements(c.template_doc,
                                                     c.replacements.items)
                IN /\ e.result = "returned"
                   /\ template_docs'[c.user] = e.doc
                   /\ c.template_name # NoName
                   /\ template_names'[c.user] =
                        RSplitBase(c.template_name) \o <<"_edited", ".", "docx">>
                   /\ calls'[i].document =
                        [bytes |-> template_docs'[c.user],
                         filename |-> template_names'[c.user]]
          /\ Starts =>
                LET c == calls'[Len(calls')]
                IN /\ c.template_doc = template_docs[c.user]
                   /\ c.template_name = template_names[c.user]]_vars

\* Two requests in a row: the second one read the document the first one
\* delivered, changed it again, and its result is what is stored now.
C10_Witness ==
    \E i \in 1..Len(calls) : \E j \in 1..Len(calls) :
        /\ i < j
        /\ calls[i].outcome = "Delivered"
        /\ calls[j].outcome = "Delivered"
        /\ calls[i].template_doc = TemplateDocument
        /\ calls[i].edited_doc # TemplateDocument
        /\ calls[j].template_doc = calls[i].edited_doc
        /\ calls[j].edited_doc # calls[i].edited_doc
        /\ calls[j].template_name = <<"t", ".", "v2", "_edited", ".", "docx">>
        /\ template_docs[calls[j].user] = calls[j].edited_doc
        /\ template_names[calls[j].user] =
                <<"t", ".", "v2", "_edited", "_edited", ".", "docx">>

\* C11: a user whose template mode is off has no stored template and no
\* stored template name, in every reachable state: also when the mode is
\* left while a request of the user waits for the completion, and so none
\* is present when the mode is switched on again.
C11_NoTemplateOutsideMode ==
    \A u \in Users :
        ~is_template_mode(u) =>
            /\ get_template_doc(u) = NoDoc
            /\ get_template_name(u) = NoName

\* A call whose edit was attempted and did not end in a delivery.
FailedEdit(c) ==
    /\ c.pc = "done"
    /\ c.engine # NotCalled
    /\ c.outcome # "Delivered"

\* Call i fails in this step: the engine raises, or the delivery fails.
Fails(i) == calls[i].pc \in {"applying", "delivering"} /\ FailedEdit(calls'[i])

MaxBody == 4        \* children of the document body
MaxNums == 2        \* w:num elements the document has before the pass

\* No w:numId / w:ilvl on the paragraph; create_list_numbering returned None.
NoNumId == -1

BodyParagraph(style) ==
    [tag |-> "w:p", style |-> style, numId |-> NoNumId, ilvl |-> NoNumId]
BodyTable == [tag |-> "w:tbl", style |-> "", numId |-> NoNumId, ilvl |-> NoNumId]
BodyOther == [tag |-> "w:sectPr", style |-> "", numId |-> NoNumId, ilvl |-> NoNumId]

\* <w:num w:numId=...><w:abstractNumId .../><w:lvlOverride w:ilvl=...>
\* <w:startOverride .../></w:lvlOverride></w:num>
Num(numId, abstractNumId, ilvl, startOverride) ==
    [numId |-> numId, abstractNumId |-> abstractNumId,
     ilvl |-> ilvl, startOverride |-> startOverride]

MaxOf(S) == CHOOSE m \in S : \A x \in S : x <= m

\* A variant that takes the number of definitions plus one as the new id.
create_list_numbering_CountPlusOne(d, abstract_num_id) ==
    IF ~d.has_numbering_part
    THEN [doc |-> d, numId |-> NoNumId]
    ELSE LET next_num_id == Len(d.num_lst) + 1
         IN [doc |-> [d EXCEPT !.num_lst =
                        Append(@, Num(next_num_id, abstract_num_id, 0, 1))],
             numId |-> next_num_id]

\* create_list_numbering: the document with one more w:num, and its numId;
\* without a numbering part nothing is added and None is returned.
create_list_numbering(d, abstract_num_id) ==
    IF ~d.has_numbering_part
    THEN [doc |-> d, numId |-> NoNumId]
    ELSE LET current_ids == {d.num_lst[k].numId : k \in 1..Len(d.num_lst)}
             next_num_id == (IF current_ids = {} THEN 0 ELSE MaxOf(current_ids)) + 1
         IN [doc |-> [d EXCEPT !.num_lst =
                        Append(@, Num(next_num_id, abstract_num_id, 0, 1))],
             numId |-> next_num_id]

\* p.style.name == 'List Number' or p.style.name == 'List Paragraph'
IsListNumber(child) ==
    child.tag = "w:p" /\ child.style \in {"List Number", "List Paragraph"}

\* The loop over doc.element.body.iterchildren(), from child i on.
RECURSIVE FixFrom(_, _, _, _, _)
FixFrom(d, i, last_was_list_number, current_num_id_val, abstract_num_id) ==
    IF i > Len(d.body) THEN d
    ELSE IF IsListNumber(d.body[i])
    THEN LET made == IF ~last_was_list_number
                     THEN create_list_numbering(d, abstract_num_id)
                     ELSE [doc |-> d, numId |-> current_num_id_val]
             applied == IF made.numId # NoNumId
                        THEN [made.doc EXCEPT !.body[i].numId = made.numId,
                                              !.body[i].ilvl = 0]
                        ELSE made.doc
         IN FixFrom(applied, i + 1, TRUE, made.numId, abstract_num_id)
    ELSE FixFrom(d, i + 1, FALSE, current_num_id_val, abstract_num_id)

\* fix_numbered_lists.  abstract_num_id is what the search through the
\* styles of the document found, or the fallback 1.
fix_numbered_lists(d) ==
    FixFrom(d, 1, FALSE, NoNumId, d.abstract_num_id)

BodyChildren ==
    {BodyParagraph("List Number"), BodyParagraph("List Paragraph"),
     BodyParagraph("Normal"), BodyTable, BodyOther}

\* The definitions a document has before the pass: ids need not be dense.
ExistingNums ==
    {nums \in UNION {[1..n -> {Num(k, 1, NoNumId, NoNumId) : k \in 1..(MaxNums + 1)}] :
                        n \in 0..MaxNums} :
        \A a \in 1..Len(nums) : \A b \in 1..Len(nums) :
            a # b => nums[a].numId # nums[b].numId}

InitNumbering ==
    /\ \E n \in 0..MaxBody : \E b \in [1..n -> BodyChildren] :
       \E nums \in ExistingNums : \E a \in 1..2 : \E part \in BOOLEAN :
            list_given = [body |-> b,
                          num_lst |-> IF part THEN nums ELSE <<>>,
                          has_numbering_part |-> part,
                          abstract_num_id |-> a]
    /\ list_doc = list_given
    /\ list_fixed = FALSE
    /\ markdown_text = <<>>
    /\ converted = NotCalled
    /\ renderings = <<>>
    /\ library = <<>>
    /\ ParagraphIdle
    /\ EditIdle
    /\ ParseIdle
    /\ SessionIdle
    /\ ExtractIdle
    /\ HandlersIdle

FixNumberedLists ==
    /\ ~list_fixed
    /\ list_doc' = fix_numbered_lists(list_doc)
    /\ list_fixed' = TRUE
    /\ UNCHANGED <<list_given, markdown_text, converted, renderings, library,
                   pvars, evars, jvars, svars, xvars, hvars>>

NextNumbering == FixNumberedLists

SpecNumbering == InitNumbering /\ [][NextNumbering]_vars

(***************************************************************************)
(* Properties of the list-numbering pass                                   *)
(***************************************************************************)
\* The positions where an ordered list starts: a list paragraph whose
\* predecessor in the body is no list paragraph.
ListStarts(b) ==
    {i \in 1..Len(b) :
        /\ IsListNumber(b[i])
        /\ (i = 1 \/ ~IsListNumber(b[i - 1]))}

\* The start of the list the list paragraph at position i belongs to.
StartOf(b, i) == MaxOf({s \in ListStarts(b) : s <= i})

\* The definitions the pass added.
Minted == SubSeq(list_doc.num_lst, Len(list_given.num_lst) + 1,
                 Len(list_doc.num_lst))

MaxLine == 4        \* characters of a line (marker normalization)
MaxLines == 3       \* lines of a text (table heuristic)

\* markdown_text.split('\n'), from position i with the line collected so far
RECURSIVE SplitFrom(_, _, _)
SplitFrom(s, i, line) ==
    IF i > Len(s) THEN <<line>>
    ELSE IF s[i] = NL THEN <<line>> \o SplitFrom(s, i + 1, <<>>)
    ELSE SplitFrom(s, i + 1, Append(line, s[i]))

SplitLines(s) == SplitFrom(s, 1, <<>>)

\* \d
IsDigit(c) == c \in {"0", "1", "2", "3", "4", "5", "6", "7", "8", "9"}

\* The length of the longest prefix of s from position i whose characters
\* satisfy one of \s and \d.
RECURSIVE SpacesFrom(_, _)
SpacesFrom(s, i) ==
    IF i <= Len(s) /\ IsSpace(s[i]) THEN 1 + SpacesFrom(s, i + 1) ELSE 0

RECURSIVE DigitsFrom(_, _)
DigitsFrom(s, i) ==
    IF i <= Len(s) /\ IsDigit(s[i]) THEN 1 + DigitsFrom(s, i + 1) ELSE 0

\* re.sub(r'^(\s*)\d+\.', r'\1 1.', line): the replacement is group 1, a
\* space, and "1."
NormalizeMarker(line) ==
    LET w == SpacesFrom(line, 1)
        n == DigitsFrom(line, w + 1)
    IN IF n >= 1 /\ w + n + 1 <= Len(line) /\ line[w + n + 1] = "."
       THEN SubSeq(line, 1, w) \o <<" ", "1", ".">>
                \o SubSeq(line, w + n + 2, Len(line))
       ELSE line

\* "|" in line
HasPipe(line) == \E k \in 1..Len(line) : line[k] = "|"

\* set(lines[i+1].strip()) <= set("|-:| ")
OnlySeparatorChars(line) ==
    \A k \in 1..Len(Strip(line)) : Strip(line)[k] \in {"|", "-", ":", " "}

\* lines[i-1].strip() and not lines[i-1].strip().startswith("|")
TextAbove(line) ==
    /\ Strip(line) # <<>>
    /\ Head(Strip(line)) # "|"

\* The loop over enumerate(lines), from index i (counted from 1) on.
RECURSIVE FixLinesFrom(_, _)
FixLinesFrom(lines, i) ==
    IF i > Len(lines) THEN <<>>
    ELSE LET line == NormalizeMarker(lines[i])
             blank == IF /\ HasPipe(line)
                         /\ i > 1
                         /\ TextAbove(lines[i - 1])
                         /\ i + 1 <= Len(lines)
                         /\ OnlySeparatorChars(lines[i + 1])
                      THEN << <<>> >>
                      ELSE <<>>
         IN blank \o <<line>> \o FixLinesFrom(lines, i + 1)

\* Lines 160-179: the text markdown.markdown is given.
Preprocess(text) == Join(<<NL>>, FixLinesFrom(SplitLines(text), 1))

\* A paragraph with its text.
TextParagraph(style, text) ==
    [tag |-> "w:p", style |-> style, numId |-> NoNumId, ilvl |-> NoNumId,
     text |-> text]

\* A variant of Document() that keeps the numbering part of the document
\* rendered last.
NewDocumentKeepsNumbering ==
    [body |-> <<>>,
     num_lst |-> IF renderings = <<>>
                 THEN <<Num(1, 1, NoNumId, NoNumId)>>
                 ELSE renderings[Len(renderings)].document.num_lst,
     has_numbering_part |-> TRUE,
     abstract_num_id |-> 1]

\* Document(): the default template, with its numbering part.
NewDocument ==
    [body |-> <<>>,
     num_lst |-> <<Num(1, 1, NoNumId, NoNumId)>>,
     has_numbering_part |-> TRUE,
     abstract_num_id |-> 1]

\* The child the libraries make of one line of the text they are given.
ChildOf(line) ==
    LET t == Strip(line)
    IN IF DigitsFrom(t, 1) >= 1 /\ DigitsFrom(t, 1) < Len(t)
          /\ t[DigitsFrom(t, 1) + 1] = "."
       THEN TextParagraph("List Number", t)
       ELSE IF Head(t) = "|"
       THEN [tag |-> "w:tbl", style |-> "", numId |-> NoNumId,
             ilvl |-> NoNumId, text |-> t]
       ELSE TextParagraph("Normal", t)

\* markdown.markdown and add_html_to_document on a text that converts.
HtmlChildren(text) ==
    LET lines == NonBlank(SplitLines(text))
    IN [k \in 1..Len(lines) |-> ChildOf(lines[k])]

\* The first k elements of a sequence, all of them when it is shorter.
Prefix(s, k) == SubSeq(s, 1, IF k < Len(s) THEN k ELSE Len(s))

\* The notice that precedes the source text when the conversion failed.
Notice == TextParagraph("Normal", <<"notice">>)

\* fix_numbered_lists that raises after k children: what it did stays.
FixPartly(d, k) ==
    LET head == fix_numbered_lists([d EXCEPT !.body = Prefix(d.body, k)])
    IN [head EXCEPT !.body = @ \o SubSeq(d.body, Len(@) + 1, Len(d.body))]

\* convert_markdown_to_docx, with lib saying what the libraries do on the
\* text: the document that is saved and returned, and the text that was
\* given to the Markdown parser.
convert_markdown_to_docx(text, lib) ==
    LET fixed == Preprocess(text)
        children == HtmlChildren(fixed)
        doc0 == NewDocument
        doc1 == IF lib.html_raises
                THEN [doc0 EXCEPT !.body =
                        Prefix(children, lib.html_children)
                            \o <<Notice, TextParagraph("Normal", fixed)>>]
                ELSE [doc0 EXCEPT !.body = children]
        doc2 == IF lib.fix_raises
                THEN FixPartly(doc1, lib.fix_children)
                ELSE fix_numbered_lists(doc1)
    IN [result |-> "returned", markdown |-> fixed,
        body |-> doc2.body, num_lst |-> doc2.num_lst]

\* What the libraries can do on a text.
LibraryBehaviours ==
    [html_raises : BOOLEAN, html_children : 0..1,
     fix_raises : BOOLEAN, fix_children : 0..1]

(***************************************************************************)
(* SpecPreprocess: one conversion, of every one-line text of up to         *)
(* MaxLine characters and of every text of up to MaxLines lines taken      *)
(* from TableLines.                                                        *)
(***************************************************************************)
LineChars == {" ", "1", "2", ".", "x"}

TableLines ==
    {<<>>, <<" ">>, <<"x">>, <<"x", "|", "x">>, <<"|", "x", "|">>,
     <<" ", "|", "x">>, <<"|", "-", "|">>, <<"-", ":", " ">>,
     <<"2", ".", "|">>}

MarkdownTexts ==
    UNION {[1..n -> LineChars] : n \in 0..MaxLine}
    \cup {Join(<<NL>>, ls) : ls \in UNION {[1..n -> TableLines] : n \in 2..MaxLines}}

InitPreprocess ==
    /\ markdown_text \in MarkdownTexts
    /\ \E b \in LibraryBehaviours : library = [t \in {markdown_text} |-> b]
    /\ converted = NotCalled
    /\ renderings = <<>>
    /\ list_doc = <<>>
    /\ list_given = <<>>
    /\ list_fixed = FALSE
    /\ ParagraphIdle
    /\ EditIdle
    /\ ParseIdle
    /\ SessionIdle
    /\ ExtractIdle
    /\ HandlersIdle

Convert ==
    /\ converted.result = "not called"
    /\ converted' = convert_markdown_to_docx(markdown_text, library[markdown_text])
    /\ UNCHANGED <<markdown_text, library, renderings,
                   list_doc, list_given, list_fixed,
                   pvars, evars, jvars, svars, xvars, hvars>>

NextPreprocess == Convert

SpecPreprocess == InitPreprocess /\ [][NextPreprocess]_vars

(***************************************************************************)
(* Properties of the preprocessing                                         *)
(***************************************************************************)
Converted == converted.result = "returned"

\* The lines of the argument and the lines the Markdown parser is given.
GivenLines == SplitLines(markdown_text)
ParsedLines == SplitLines(converted.markdown)

\* A line that starts with optional white space, digits and a dot.
HasMarker(line) ==
    LET w == SpacesFrom(line, 1)
        n == DigitsFrom(line, w + 1)
    IN n >= 1 /\ w + n + 1 <= Len(line) /\ line[w + n + 1] = "."

\* C14: a one-line text that starts with optional white space, digits and
\* a dot comes out with the same white space, then "1.", then the rest of
\* the line as it was.
C14_MarkerNormalized ==
    Converted /\ Len(GivenLines) = 1 /\ HasMarker(GivenLines[1]) =>
        LET line == GivenLines[1]
            w == SpacesFrom(line, 1)
            n == DigitsFrom(line, w + 1)
        IN ParsedLines = <<SubSeq(line, 1, w) \o <<"1", ".">>
                                \o SubSeq(line, w + n + 2, Len(line))>>

\* A header-separator row: a line that is not blank and is made only of
\* pipes, dashes, colons and spaces.
SeparatorRow(line) ==
    /\ Strip(line) # <<>>
    /\ \A k \in 1..Len(line) : line[k] \in {"|", "-", ":", " "}

\* A line that looks like a table row.
LooksLikeRow(line) == Strip(line) # <<>> /\ Head(Strip(line)) = "|"

\* Whether a blank line belongs before line i of the given text.
BlankBefore(lines, i) ==
    /\ HasPipe(lines[i])
    /\ i > 1
    /\ Strip(lines[i - 1]) # <<>>
    /\ ~LooksLikeRow(lines[i - 1])
    /\ i + 1 <= Len(lines)
    /\ SeparatorRow(lines[i + 1])

\* The given lines with a blank line put where it belongs, and the
\* markers left alone.
RECURSIVE WithBlanksFrom(_, _)
WithBlanksFrom(lines, i) ==
    IF i > Len(lines) THEN <<>>
    ELSE (IF BlankBefore(lines, i) THEN << <<>> >> ELSE <<>>)
            \o <<lines[i]>> \o WithBlanksFrom(lines, i + 1)

\* C15: in a text without numeric markers the lines the parser is given
\* are the given lines, with exactly one blank line before line i if and
\* only if line i contains a pipe, is not the first line, the line above
\* it is not blank and does not look like a table row, and the line below
\* it exists and is a header-separator row; no other line is added.
C15_BlankLineBeforeTable ==
    Converted /\ (\A i \in 1..Len(GivenLines) : ~HasMarker(GivenLines[i])) =>
        ParsedLines = WithBlanksFrom(GivenLines, 1)

\* The conversion of the HTML raised in this call.
HtmlRaised == library[markdown_text].html_raises

\* C16: when add_html_to_document raises, the call still returns a
\* document, and the document has the notice paragraph followed by a plain
\* paragraph whose text is the Markdown text the caller passed; when the
\* numbering pass raises the call returns a document as well.
C16_FallbackHoldsSource ==
    Converted /\ HtmlRaised =>
        \E k \in 1..(Len(converted.body) - 1) :
            /\ converted.body[k] = Notice
            /\ converted.body[k + 1] = TextParagraph("Normal", markdown_text)

(***************************************************************************)
(* SpecRender: conversions one after the other, of texts taken from        *)
(* RenderTexts in any order.  What the libraries do on a text is fixed     *)
(* when the process starts.                                                *)
(***************************************************************************)
MaxRenderings == 3  \* calls of convert_markdown_to_docx

\* "1. a / 2. b / text / 1. c", a list under a table row, and a plain line.
RenderTexts ==
    {Join(<<NL>>, << <<"1", ".", "x">>, <<"2", ".", "x">>, <<"x">>, <<"1", ".", "x">> >>),
     Join(<<NL>>, << <<"|", "x", "|">>, <<"2", ".", "x">> >>),
     <<"x">>}

InitRender ==
    /\ library \in [RenderTexts -> LibraryBehaviours]
    /\ renderings = <<>>
    /\ markdown_text = <<>>
    /\ converted = NotCalled
    /\ list_doc = <<>>
    /\ list_given = <<>>
    /\ list_fixed = FALSE
    /\ ParagraphIdle
    /\ EditIdle
    /\ ParseIdle
    /\ SessionIdle
    /\ ExtractIdle
    /\ HandlersIdle

Render(text) ==
    /\ Len(renderings) < MaxRenderings
    /\ renderings' = Append(renderings,
            [text |-> text,
             document |-> convert_markdown_to_docx(text, library[text])])
    /\ UNCHANGED <<markdown_text, converted, library,
                   list_doc, list_given, list_fixed,
                   pvars, evars, jvars, svars, xvars, hvars>>

NextRender == \E text \in RenderTexts : Render(text)

SpecRender == InitRender /\ [][NextRender]_vars

\* The visible text of a document: the texts of its children, in order.
VisibleText(document) ==
    [k \in 1..Len(document.body) |-> document.body[k].text]

\* Which numbering definition each child has, and how each definition
\* restarts.
NumberingOf(document) ==
    [ids |-> [k \in 1..Len(document.body) |-> document.body[k].numId],
     nums |-> document.num_lst]

MaxBytes == 2       \* bytes of a text file
MaxPages == 2       \* pages of a PDF file

\* Document(io.BytesIO(file_data))
Document(data) == data.docx

\* fitz.open(stream=file_data, filetype="pdf")
fitz_open(data) == data.pdf

\* The code page of cp1251, cp1252 and koi8-r for the bytes 128..255
\* (entry b - 127 is the code point of byte b, -1 where the codec has none).
Cp1251Table ==
    <<
       1026, 1027, 8218, 1107, 8222, 8230, 8224, 8225,
       8364, 8240, 1033, 8249, 1034, 1036, 1035, 1039,
       1106, 8216, 8217, 8220, 8221, 8226, 8211, 8212,
       -1, 8482, 1113, 8250, 1114, 1116, 1115, 1119,
       160, 1038, 1118, 1032, 164, 1168, 166, 167,
       1025, 169, 1028, 171, 172, 173, 174, 1031,
       176, 177, 1030, 1110, 1169, 181, 182, 183,
       1105, 8470, 1108, 187, 1112, 1029, 1109, 1111,
       1040, 1041, 1042, 1043, 1044, 1045, 1046, 1047,
       1048, 1049, 1050, 1051, 1052, 1053, 1054, 1055,
       1056, 1057, 1058, 1059, 1060, 1061, 1062, 1063,
       1064, 1065, 1066, 1067, 1068, 1069, 1070, 1071,
       1072, 1073, 1074, 1075, 1076, 1077, 1078, 1079,
       1080, 1081, 1082, 1083, 1084, 1085, 1086, 1087,
       1088, 1089, 1090, 1091, 1092, 1093, 1094, 1095,
       1096, 1097, 1098, 1099, 1100, 1101, 1102, 1103
    >>

Cp1252Table ==
    <<
       8364, -1, 8218, 402, 8222, 8230, 8224, 8225,
       710, 8240, 352, 8249, 338, -1, 381, -1,
       -1, 8216, 8217, 8220, 8221, 8226, 8211, 8212,
       732, 8482, 353, 8250, 339, -1, 382, 376,
       160, 161, 162, 163, 164, 165, 166, 167,
       168, 169, 170, 171, 172, 173, 174, 175,
       176, 177, 178, 179, 180, 181, 182, 183,
       184, 185, 186, 187, 188, 189, 190, 191,
       192, 193, 194, 195, 196, 197, 198, 199,
       200, 201, 202, 203, 204, 205, 206, 207,
       208, 209, 210, 211, 212, 213, 214, 215,
       216, 217, 218, 219, 220, 221, 222, 223,
       224, 225, 226, 227, 228, 229, 230, 231,
       232, 233, 234, 235, 236, 237, 238, 239,
       240, 241, 242, 243, 244, 245, 246, 247,
       248, 249, 250, 251, 252, 253, 254, 255
    >>

Koi8rTable ==
    <<
       9472, 9474, 9484, 9488, 9492, 9496, 9500, 9508,
       9516, 9524, 9532, 9600, 9604, 9608, 9612, 9616,
       9617, 9618, 9619, 8992, 9632, 8729, 8730, 8776,
       8804, 8805, 160, 8993, 176, 178, 183, 247,
       9552, 9553, 9554, 1105, 9555, 9556, 9557, 9558,
       9559, 9560, 9561, 9562, 9563, 9564, 9565, 9566,
       9567, 9568, 9569, 1025, 9570, 9571, 9572, 9573,
       9574, 9575, 9576, 9577, 9578, 9579, 9580, 169,
       1102, 1072, 1073, 1094, 1076, 1077, 1092, 1075,
       1093, 1080, 1081, 1082, 1083, 1084, 1085, 1086,
       1087, 1103, 1088, 1089, 1090, 1091, 1078, 1074,
       1100, 1099, 1079, 1096, 1101, 1097, 1095, 1098,
       1070, 1040, 1041, 1062, 1044, 1045, 1060, 1043,
       1061, 1048, 1049, 1050, 1051, 1052, 1053, 1054,
       1055, 1071, 1056, 1057, 1058, 1059, 1046, 1042,
       1068, 1067, 1047, 1064, 1069, 1065, 1063, 1066
    >>

Undecodable == [ok |-> FALSE, text |-> <<>>]

\* bytes.decode of a single-byte codec: every byte on its own, ASCII as it is
RECURSIVE DecodeTable(_, _, _)
DecodeTable(tbl, bytes, i) ==
    IF i > Len(bytes) THEN [ok |-> TRUE, text |-> <<>>]
    ELSE LET b == bytes[i]
             cp == IF b < 128 THEN b ELSE tbl[b - 127]
             rest == DecodeTable(tbl, bytes, i + 1)
         IN IF cp = -1 \/ ~rest.ok THEN Undecodable
            ELSE [ok |-> TRUE, text |-> <<cp>> \o rest.text]

\* latin-1 and iso-8859-1: byte b is code point b
Latin1Table == [i \in 1..128 |-> i + 127]

\* a continuation byte at offset j of the sequence starting at i
Continues(bytes, i, j, lo, hi) ==
    /\ i + j <= Len(bytes)
    /\ bytes[i + j] >= lo
    /\ bytes[i + j] <= hi

ReplacementCharacter == 65533

\* One step of the UTF-8 decoder at position i: the code point and the bytes
\* taken, or (ok = FALSE) the number of bytes that errors='replace' turns
\* into one replacement character.
Utf8Step(bytes, i) ==
    LET b0 == bytes[i]
        bad(k) == [ok |-> FALSE, cp |-> ReplacementCharacter, taken |-> k]
        good(cp, k) == [ok |-> TRUE, cp |-> cp, taken |-> k]
    IN CASE b0 < 128 -> good(b0, 1)
         [] b0 >= 194 /\ b0 <= 223 ->
              IF Continues(bytes, i, 1, 128, 191)
              THEN good((b0 - 192) * 64 + (bytes[i + 1] - 128), 2)
              ELSE bad(1)
         [] b0 >= 224 /\ b0 <= 239 ->
              LET lo == IF b0 = 224 THEN 160 ELSE 128
                  hi == IF b0 = 237 THEN 159 ELSE 191
              IN IF ~Continues(bytes, i, 1, lo, hi) THEN bad(1)
                 ELSE IF ~Continues(bytes, i, 2, 128, 191) THEN bad(2)
                 ELSE good((b0 - 224) * 4096 + (bytes[i + 1] - 128) * 64
                           + (bytes[i + 2] - 128), 3)
         [] b0 >= 240 /\ b0 <= 244 ->
              LET lo == IF b0 = 240 THEN 144 ELSE 128
                  hi == IF b0 = 244 THEN 143 ELSE 191
              IN IF ~Continues(bytes, i, 1, lo, hi) THEN bad(1)
                 ELSE IF ~Continues(bytes, i, 2, 128, 191) THEN bad(2)
                 ELSE IF ~Continues(bytes, i, 3, 128, 191) THEN bad(3)
                 ELSE good((b0 - 240) * 262144 + (bytes[i + 1] - 128) * 4096
                           + (bytes[i + 2] - 128) * 64 + (bytes[i + 3] - 128), 4)
         [] OTHER -> bad(1)

\* bytes.decode('utf-8') and bytes.decode('utf-8', errors='replace')
RECURSIVE DecodeUtf8(_, _, _)
DecodeUtf8(bytes, i, lossy) ==
    IF i > Len(bytes) THEN [ok |-> TRUE, text |-> <<>>]
    ELSE LET step == Utf8Step(bytes, i)
         IN IF ~step.ok /\ ~lossy THEN Undecodable
            ELSE LET rest == DecodeUtf8(bytes, i + step.taken, lossy)
                 IN IF ~rest.ok THEN Undecodable
                    ELSE [ok |-> TRUE, text |-> <<step.cp>> \o rest.text]

\* the byte order mark that utf-8-sig leaves out
BOM == <<239, 187, 191>>

SkipBOM(bytes) ==
    IF Len(bytes) >= 3 /\ SubSeq(bytes, 1, 3) = BOM
    THEN SubSeq(bytes, 4, Len(bytes)) ELSE bytes

\* file_data.decode(encoding): ok = FALSE is UnicodeDecodeError
Decode(bytes, encoding) ==
    CASE encoding = "utf-8" -> DecodeUtf8(bytes, 1, FALSE)
      [] encoding = "utf-8-sig" -> DecodeUtf8(SkipBOM(bytes), 1, FALSE)
      [] encoding = "cp1251" -> DecodeTable(Cp1251Table, bytes, 1)
      [] encoding = "cp1252" -> DecodeTable(Cp1252Table, bytes, 1)
      [] encoding = "latin-1" -> DecodeTable(Latin1Table, bytes, 1)
      [] encoding = "iso-8859-1" -> DecodeTable(Latin1Table, bytes, 1)
      [] encoding = "koi8-r" -> DecodeTable(Koi8rTable, bytes, 1)

encodings_Cp1252First ==
    <<"utf-8", "utf-8-sig", "cp1252", "cp1251", "latin-1", "iso-8859-1", "koi8-r">>

encodings ==
    <<"utf-8", "utf-8-sig", "cp1251", "cp1252", "latin-1", "iso-8859-1", "koi8-r">>

\* for encoding in encodings: try: return file_data.decode(encoding)
RECURSIVE TryEncodings(_, _)
TryEncodings(bytes, k) ==
    IF k > Len(encodings)
    THEN DecodeUtf8(bytes, 1, TRUE).text
    ELSE IF Decode(bytes, encodings[k]).ok
         THEN Decode(bytes, encodings[k]).text
         ELSE TryEncodings(bytes, k + 1)

extract_text_from_txt(bytes) == TryEncodings(bytes, 1)

\* f"Ошибка при чтении PDF: {str(e)}", one lexeme
PdfReadError == <<"<PDF read error>">>

\* str(page_num + 1)
PageNumber(n) == <<"1", "2", "3", "4">>[n]

\* the parts of the pages from page n on: blank pages are left out
RECURSIVE PageParts(_, _)
PageParts(pages, n) ==
    IF n > Len(pages) THEN <<>>
    ELSE IF Strip(pages[n]) # <<>>
         THEN << <<"--- page ", PageNumber(n), " ---", NL>> \o pages[n] >>
              \o PageParts(pages, n + 1)
         ELSE PageParts(pages, n + 1)

\* pdf is what fitz.open makes of the bytes; it raises inside the try on
\* bytes that are no PDF, and the except branch returns the error string
extract_text_from_pdf(pdf) ==
    IF pdf.kind # "pdf" THEN PdfReadError
    ELSE Join(<<NL, NL>>, PageParts(pdf.pages, 1))

\* The value and the extractor that was called (none for the sentinel).
ReturnedBy(value, extractor) ==
    [result |-> "returned", value |-> value, extractor |-> extractor]

\* file_name_lower.endswith('.' + suffix)
EndsWith(file_name, suffix) ==
    /\ Len(file_name) >= 2
    /\ file_name[Len(file_name) - 1] = "."
    /\ Lower(file_name[Len(file_name)]) = suffix

extract_text_from_file(data, file_name) ==
    IF EndsWith(file_name, "docx")
    THEN ReturnedBy(extract_text_from_docx(Document(data)), "extract_text_from_docx")
    ELSE IF EndsWith(file_name, "pdf")
    THEN ReturnedBy(extract_text_from_pdf(fitz_open(data)), "extract_text_from_pdf")
    ELSE IF EndsWith(file_name, "txt")
    THEN ReturnedBy(extract_text_from_txt(data.bytes), "extract_text_from_txt")
    ELSE ReturnedBy(PyNone, "none")

\* the parts of the rows of one table
RowParts(table) ==
    [r \in 1..Len(table) |->
        [part |-> "row", index |-> r,
         text |-> Join(<<" ", "|", " ">>,
                       [c \in 1..Len(table[r]) |-> Strip(CellText(table[r][c]))])]]

RECURSIVE TableParts(_, _)
TableParts(tables, t) ==
    IF t > Len(tables) THEN <<>>
    ELSE <<[part |-> "table", index |-> t, text |-> <<>>]>>
         \o RowParts(tables[t]) \o TableParts(tables, t + 1)

RECURSIVE ParagraphParts(_, _)
ParagraphParts(ps, i) ==
    IF i > Len(ps) THEN <<>>
    ELSE IF Strip(ParagraphText(ps[i])) # <<>>
         THEN <<[part |-> "paragraph", index |-> i, text |-> ParagraphText(ps[i])]>>
              \o ParagraphParts(ps, i + 1)
         ELSE ParagraphParts(ps, i + 1)

\* The parts that "\n".join(parts) joins.  Document(...) is called outside
\* any try: on bytes that are no document the exception leaves the function.
get_docx_structure_for_ai(data) ==
    LET doc == Document(data)
    IN IF doc.kind # "docx" THEN [result |-> Raised]
       ELSE [result |-> "returned",
             value |-> <<[part |-> "header", index |-> 0, text |-> <<>>]>>
                       \o ParagraphParts(doc.paragraphs, 1)
                       \o TableParts(doc.tables, 1)]

(***************************************************************************)
(* SpecExtract: one uploaded file, its text extracted and its structure    *)
(* read.                                                                   *)
(***************************************************************************)
\* bytes that reach every codec of the list: ASCII, the two bytes of a UTF-8
\* sequence, and bytes that cp1251 (152) or cp1252 (129) have no character for
FileBytes == {65, 195, 169, 152, 129, 255}

RECURSIVE BytesOfLen(_)
BytesOfLen(n) ==
    IF n = 0 THEN {<<>>}
    ELSE {<<b>> \o s : b \in FileBytes, s \in BytesOfLen(n - 1)}

TextFiles ==
    UNION {BytesOfLen(n) : n \in 0..MaxBytes} \cup {BOM \o <<65>>, <<239, 187>>}

PdfDocuments ==
    {[kind |-> "pdf", pages |-> ps] :
        ps \in UNION {[1..n -> {<<"a">>, <<" ">>}] : n \in 0..MaxPages}}

UploadedData ==
    {[bytes |-> b, docx |-> CorruptBytes, pdf |-> CorruptBytes] : b \in TextFiles}
    \cup {[bytes |-> <<80, 75>>, docx |-> d, pdf |-> CorruptBytes] :
            d \in {TemplateDocument,
                   MkDocument(<<MkParagraph(<< <<" ">> >>)>>, <<>>, <<>>)}}
    \cup {[bytes |-> <<37, 80>>, docx |-> CorruptBytes, pdf |-> p] : p \in PdfDocuments}

FileNames ==
    {<<"f", ".", "docx">>, <<"f", ".", "DOCX">>, <<"f", ".", "Docx">>,
     <<"f", ".", "pdf">>, <<"f", ".", "PDF">>,
     <<"f", ".", "txt">>, <<"f", ".", "Txt">>,
     <<"f", ".", "docx", ".", "bak">>, <<"f", ".", "doc">>,
     <<"f", "docx">>, <<"txt">>, <<".", "pdf">>, <<>>}

InitExtract ==
    /\ upload_data \in UploadedData
    /\ upload_name \in FileNames
    /\ extracted_text = NotCalled
    /\ doc_structure = NotCalled
    /\ ParagraphIdle /\ EditIdle /\ ParseIdle /\ SessionIdle /\ RenderIdle
    /\ HandlersIdle

ExtractText ==
    /\ extracted_text = NotCalled
    /\ extracted_text' = extract_text_from_file(upload_data, upload_name)
    /\ UNCHANGED <<upload_data, upload_name, doc_structure,
                   pvars, evars, jvars, svars, rvars, hvars>>

GetStructure ==
    /\ doc_structure = NotCalled
    /\ doc_structure' = get_docx_structure_for_ai(upload_data)
    /\ UNCHANGED <<upload_data, upload_name, extracted_text,
                   pvars, evars, jvars, svars, rvars, hvars>>

NextExtract == ExtractText \/ GetStructure

SpecExtract == InitExtract /\ [][NextExtract]_vars

(***************************************************************************)
(* Properties of the text extraction (SpecExtract).                        *)
(***************************************************************************)
TextExtracted == extracted_text.result = "returned"
StructureRead == doc_structure.result # "not called"
ExtractedBy(extractor) == TextExtracted /\ extracted_text.extractor = extractor

\* C18: for bytes that no library can parse as a document, plain extraction
\* (extract_text_from_docx, extract_text_from_pdf) and structural extraction
\* (get_docx_structure_for_ai) all return: none of them lets the exception
\* out, and plain extraction returns its error string.
C18_CorruptNeverRaises ==
    /\ (ExtractedBy("extract_text_from_docx")
        /\ Document(upload_data).kind = "corrupt")
       => extracted_text.value = DocxReadError
    /\ (ExtractedBy("extract_text_from_pdf")
        /\ fitz_open(upload_data).kind = "corrupt")
       => extracted_text.value = PdfReadError
    /\ (StructureRead /\ Document(upload_data).kind = "corrupt")
       => doc_structure.result = "returned"

\* the part of C18 about plain extraction alone
PlainExtractionReturnsError ==
    /\ (ExtractedBy("extract_text_from_docx")
        /\ Document(upload_data).kind = "corrupt")
       => extracted_text.value = DocxReadError
    /\ (ExtractedBy("extract_text_from_pdf")
        /\ fitz_open(upload_data).kind = "corrupt")
       => extracted_text.value = PdfReadError

PlainExtractionOfCorruptBytes ==
    /\ ExtractedBy("extract_text_from_docx")
    /\ Document(upload_data).kind = "corrupt"
    /\ extracted_text.value = DocxReadError

\* the order of the encodings as the claim gives it
ClaimedOrder ==
    <<"utf-8", "utf-8-sig", "cp1251", "cp1252", "latin-1", "iso-8859-1", "koi8-r">>

Accepting(bytes) == {k \in 1..Len(ClaimedOrder) : Decode(bytes, ClaimedOrder[k]).ok}

LegacySingleByte == {"cp1251", "cp1252", "latin-1", "iso-8859-1", "koi8-r"}

\* C19: extract_text_from_txt returns, for every byte sequence, the decoding
\* under the first encoding of the order utf-8, utf-8-sig, cp1251, cp1252,
\* latin-1, iso-8859-1, koi8-r that accepts the bytes; the lossy UTF-8
\* decoding only if none accepts them; and bytes that are invalid UTF-8 but
\* valid in a legacy single-byte codec are decoded by such a codec.
C19_FirstAcceptingEncoding ==
    ExtractedBy("extract_text_from_txt") =>
        LET bytes == upload_data.bytes
            ok == Accepting(bytes)
        IN /\ ok # {} =>
                \E k \in ok :
                    /\ \A j \in ok : k <= j
                    /\ extracted_text.value = Decode(bytes, ClaimedOrder[k]).text
                    /\ ~Decode(bytes, "utf-8").ok => ClaimedOrder[k] \in LegacySingleByte
           /\ ok = {} => extracted_text.value = DecodeUtf8(bytes, 1, TRUE).text

\* The byte 255 is invalid UTF-8; cp1251 accepts it and gives U+044F.
C19_Witness ==
    /\ ExtractedBy("extract_text_from_txt")
    /\ upload_data.bytes = <<255>>
    /\ ~Decode(upload_data.bytes, "utf-8").ok
    /\ extracted_text.value = <<1103>>

\* the extractor the claim assigns to a file name
ClaimedExtractor(file_name) ==
    LET n == Len(file_name)
    IN IF n < 2 \/ file_name[n - 1] # "." THEN "none"
       ELSE CASE file_name[n] \in {"docx", "DOCX", "Docx"} -> "extract_text_from_docx"
              [] file_name[n] \in {"pdf", "PDF", "Pdf"} -> "extract_text_from_pdf"
              [] file_name[n] \in {"txt", "TXT", "Txt"} -> "extract_text_from_txt"
              [] OTHER -> "none"

\* C20: extract_text_from_file always returns; the suffix of the file name,
\* whatever its case, selects the extractor whose value it returns, and every
\* other name gives None with no extractor called.
C20_DispatchOnSuffix ==
    extracted_text.result # "not called" =>
        /\ extracted_text.result = "returned"
        /\ extracted_text.extractor = ClaimedExtractor(upload_name)
        /\ extracted_text.extractor = "extract_text_from_docx"
           => extracted_text.value = extract_text_from_docx(Document(upload_data))
        /\ extracted_text.extractor = "extract_text_from_pdf"
           => extracted_text.value = extract_text_from_pdf(fitz_open(upload_data))
        /\ extracted_text.extractor = "extract_text_from_txt"
           => extracted_text.value = extract_text_from_txt(upload_data.bytes)
        /\ extracted_text.extractor = "none" => extracted_text.value = PyNone

\* An upper-case suffix selects the DOCX extractor.
C20_Witness ==
    /\ ExtractedBy("extract_text_from_docx")
    /\ upload_name = <<"f", ".", "DOCX">>
    /\ Document(upload_data).kind = "docx"
    /\ extracted_text.value # <<>>

\* A name with no supported suffix gives None although the bytes are a document.
UnsupportedName ==
    /\ ExtractedBy("none")
    /\ upload_name = <<"f", ".", "docx", ".", "bak">>
    /\ Document(upload_data).kind = "docx"
    /\ extracted_text.value = PyNone

(***************************************************************************)
(* SpecPrompt: the structural text of the template on its way into the     *)
(* prompt of a change request (handle_text, template branch).              *)
(***************************************************************************)
\* the ceiling of the structural text in the prompt, in characters
StructureCeiling == 10000

MaxMargin == 20     \* how far the lengths of the texts lie around the ceiling

\* "\n[...обрезано...]", the Cyrillic letters written in Latin
TruncationMarker ==
    <<NL, "[", ".", ".", ".", "o", "b", "r", "e", "z", "a", "n", "o",
      ".", ".", ".", "]">>

\* A variant that cuts a text of exactly the ceiling's length as well.
TruncateStructureAtCeiling(text) ==
    IF Len(text) >= StructureCeiling
    THEN SubSeq(text, 1, StructureCeiling) \o TruncationMarker
    ELSE text

\* if len(doc_structure) > 10000: doc_structure = doc_structure[:10000] + marker
TruncateStructure(text) ==
    IF Len(text) > StructureCeiling
    THEN SubSeq(text, 1, StructureCeiling) \o TruncationMarker
    ELSE text

\* A text of n characters "a", with a "b" at position k (none for k = 0).
TextOf(n, k) == [i \in 1..n |-> IF i = k THEN "b" ELSE "a"]

StructureLengths ==
    (0..MaxMargin)
    \cup ((StructureCeiling - MaxMargin)..(StructureCeiling + MaxMargin))

StructureTexts ==
    {TextOf(n, k) : n \in StructureLengths,
                    k \in {0, 1, StructureCeiling, StructureCeiling + 1}}

InitPrompt ==
    /\ structure_text \in StructureTexts
    /\ prompt_structure = NotCalled
    /\ ParagraphIdle /\ EditIdle /\ ParseIdle /\ SessionIdle /\ RenderIdle
    /\ ExtractIdle /\ CompletionIdle /\ CacheIdle /\ ManagerIdle

\* handle_text from the structural text to the prompt
BuildPrompt ==
    /\ prompt_structure = NotCalled
    /\ prompt_structure' = [result |-> "returned",
                            value |-> TruncateStructure(structure_text)]
    /\ UNCHANGED <<structure_text, pvars, evars, jvars, svars, rvars, xvars,
                   gvars, cvars, mvars>>

NextPrompt == BuildPrompt

SpecPrompt == InitPrompt /\ [][NextPrompt]_vars

PromptBuilt == prompt_structure.result = "returned"

\* C21: the structural text in the prompt is at most 10,000 characters plus
\* the marker long; a text of at most 10,000 characters stands in the prompt
\* unchanged, a longer one as its first 10,000 characters and the marker.
C21_StructureCeiling ==
    PromptBuilt =>
        LET n == Len(structure_text)
            value == prompt_structure.value
        IN /\ Len(value) <= StructureCeiling + Len(TruncationMarker)
           /\ n <= StructureCeiling => value = structure_text
           /\ n > StructureCeiling =>
                /\ Len(value) = StructureCeiling + Len(TruncationMarker)
                /\ \A i \in 1..StructureCeiling : value[i] = structure_text[i]
                /\ \A i \in 1..Len(TruncationMarker) :
                        value[StructureCeiling + i] = TruncationMarker[i]

\* A text one character over the ceiling: its last character is cut, the
\* one at the ceiling is kept.
C21_Witness ==
    /\ PromptBuilt
    /\ Len(structure_text) = StructureCeiling + 1
    /\ structure_text[StructureCeiling] = "b"
    /\ prompt_structure.value[StructureCeiling] = "b"
    /\ Len(prompt_structure.value) = StructureCeiling + 17

\* A text of exactly the ceiling's length is not cut.
AtTheCeiling ==
    /\ PromptBuilt
    /\ Len(structure_text) = StructureCeiling
    /\ prompt_structure.value = structure_text

(***************************************************************************)
(* SpecCompletion: one call of openai_client.get_chat_response, from one   *)
(* request to the completion service to the next.  A message is a role and *)
(* a content; contents and completions are sequences of lexemes.           *)
(***************************************************************************)
\* for loop_i in range(3)
MaxIterations == 3

Message(role, content) == [role |-> role, content |-> content]

\* The strings get_chat_response returns in place of a completion.
NoAnswer == <<"<no answer>">>
EmptyAnswer(finish_reason) == <<"<empty answer>", finish_reason>>
TooManyIterations == <<"<answer too long>">>
OpenAIError == <<"<OpenAI error>">>

\* [m for m in current_messages if keep(m)]
RECURSIVE WithRole(_, _, _)
WithRole(messages, system, i) ==
    IF i > Len(messages) THEN <<>>
    ELSE IF (messages[i].role = "system") = system
         THEN <<messages[i]>> \o WithRole(messages, system, i + 1)
         ELSE WithRole(messages, system, i + 1)

\* A variant of the pruning that keeps the two oldest messages.
PruneKeepingOldest(messages) ==
    LET sys_msg == WithRole(messages, TRUE, 1)
        other_msgs == WithRole(messages, FALSE, 1)
    IN sys_msg \o (IF Len(other_msgs) > 2 THEN SubSeq(other_msgs, 1, 2)
                   ELSE other_msgs)

\* the pruning at the head of an iteration that follows an empty answer
Prune(messages) ==
    LET sys_msg == WithRole(messages, TRUE, 1)
        other_msgs == WithRole(messages, FALSE, 1)
        n == Len(other_msgs)
    IN sys_msg \o (IF n > 2 THEN SubSeq(other_msgs, n - 1, n) ELSE other_msgs)

\* use_model
UseModel(model, image) ==
    IF image THEN "vision" ELSE IF model = "None" THEN "default" ELSE model

\* last_msg["content"] = [text, image_url]: the last message of the caller's
\* list gets the image next to its text
WithImage(content) ==
    CASE content = "ai_prompt" -> "ai_prompt + image"
      [] content = "q2" -> "q2 + image"
      [] OTHER -> "text + image"

\* The caller's list once the image, if any, is in its last message.
GivenMessages(messages, image) ==
    IF image
    THEN [messages EXCEPT ![Len(messages)].content = WithImage(@)]
    ELSE messages

\* The locals at the first request.  messages is the caller's list,
\* current_messages = list(messages) the copy the loop works on; sent and
\* received are the requests made and the responses to them.
StartCompletion(messages, model, image) ==
    [pc |-> "request",
     api |-> IF UseModel(model, image) = "gpt-5.2-pro" THEN "responses" ELSE "chat",
     loop_i |-> 0, full_content |-> <<>>,
     messages |-> GivenMessages(messages, image),
     current_messages |-> GivenMessages(messages, image),
     requests |-> 0, sent |-> <<>>, received |-> <<>>, value |-> <<>>]

Return(c, value) == [c EXCEPT !.pc = "done", !.value = value]

\* A variant of continue for a loop that has no last iteration.
ContinueUnbounded(c) == [c EXCEPT !.loop_i = c.loop_i + 1]

\* continue: the next iteration, or the statement after the loop
Continue(c) ==
    IF c.loop_i + 1 < MaxIterations
    THEN [c EXCEPT !.loop_i = c.loop_i + 1]
    ELSE Return(c, IF c.full_content # <<>> THEN c.full_content
                   ELSE TooManyIterations)

\* One iteration of the loop: pruning, the request, and what is done with
\* the response.
ChatIteration(c, response) ==
    LET pruned == IF c.loop_i > 0 /\ c.full_content = <<>>
                  THEN [c EXCEPT !.current_messages = Prune(c.current_messages)]
                  ELSE c
        requested == [pruned EXCEPT
                        !.requests = c.requests + 1,
                        !.sent = Append(c.sent,
                                        [messages |-> pruned.current_messages,
                                         pruned |-> c.loop_i > 0 /\ c.full_content = <<>>]),
                        !.received = Append(c.received, response)]
    IN IF response.kind = "raises" THEN Return(requested, OpenAIError)
       ELSE IF response.kind = "no choices"
       THEN Return(requested, IF requested.full_content # <<>>
                              THEN requested.full_content
                              ELSE NoAnswer)
       ELSE LET content == response.content
                finish_reason == response.finish_reason
                got == [requested EXCEPT
                            !.full_content = requested.full_content \o content]
            IN IF finish_reason = "stop" THEN Return(got, got.full_content)
               ELSE IF finish_reason = "length"
               THEN IF content = <<>> /\ got.full_content = <<>>
                    THEN Continue(got)
                    ELSE Continue([got EXCEPT !.current_messages =
                            Append(got.current_messages,
                                   Message("assistant", content))])
               ELSE IF got.full_content = <<>>
               THEN Return(got, EmptyAnswer(finish_reason))
               ELSE Return(got, got.full_content)

\* The Responses API branch: one request, the first output text or the
\* failure string.
ResponsesRequest(c, response) ==
    LET requested == [c EXCEPT
                        !.requests = c.requests + 1,
                        !.sent = Append(c.sent, [messages |-> c.current_messages,
                                                 pruned |-> FALSE]),
                        !.received = Append(c.received, response)]
    IN IF response.kind = "raises" THEN Return(requested, OpenAIError)
       ELSE IF response.kind = "no choices" THEN Return(requested, NoAnswer)
       ELSE Return(requested, response.content)

\* What the completion service answers to one request.
FinishReasons == {"stop", "length", "content_filter"}

Contents == {<<>>, <<"{">>, <<"a:b", "}">>, <<"{", "a:b", "}">>}

ServiceResponses ==
    {[kind |-> "raises", content |-> <<>>, finish_reason |-> "none"],
     [kind |-> "no choices", content |-> <<>>, finish_reason |-> "none"]}
    \cup {[kind |-> "choice", content |-> c, finish_reason |-> f] :
            c \in Contents, f \in FinishReasons}

\* the two messages of the template branch, and a conversation
TemplateMessages ==
    <<Message("system", "expert"), Message("user", "ai_prompt")>>

ChatMessages ==
    <<Message("system", "SYSTEM_PROMPT"), Message("user", "q1"),
      Message("assistant", "a1"), Message("user", "q2")>>

Models == {"None", "gpt-5.2-pro", "gpt-4o"}

InitCompletion ==
    /\ \E messages \in {TemplateMessages, ChatMessages} :
       \E model \in Models : \E image \in BOOLEAN :
            completion = StartCompletion(messages, model, image)
    /\ ParagraphIdle /\ EditIdle /\ ParseIdle /\ SessionIdle /\ RenderIdle
    /\ ExtractIdle /\ PromptIdle /\ CacheIdle /\ ManagerIdle

ChatCompletionsCreate(response) ==
    /\ completion.pc = "request"
    /\ completion.api = "chat"
    /\ completion' = ChatIteration(completion, response)
    /\ UNCHANGED <<pvars, evars, jvars, svars, rvars, xvars, tvars, cvars,
                   mvars>>

ResponsesCreate(response) ==
    /\ completion.pc = "request"
    /\ completion.api = "responses"
    /\ completion' = ResponsesRequest(completion, response)
    /\ UNCHANGED <<pvars, evars, jvars, svars, rvars, xvars, tvars, cvars,
                   mvars>>

NextCompletion ==
    \/ \E response \in ServiceResponses : ChatCompletionsCreate(response)
    \/ \E response \in ServiceResponses : ResponsesCreate(response)

SpecCompletion == InitCompletion /\ [][NextCompletion]_vars

CompletionReturned == completion.pc = "done"

\* C22: a change request makes exactly one request to the completion
\* service, whatever finish reason the service returns: when
\* get_chat_response has returned for the two messages of the template
\* branch, one request was made.
C22_OneRequestPerChangeRequest ==
    (CompletionReturned /\ completion.current_messages[2].content = "ai_prompt")
        => completion.requests = 1

\* get_chat_response makes at least one and at most three requests.
BoundedRequests ==
    CompletionReturned =>
        completion.requests >= 1 /\ completion.requests <= MaxIterations

\* Three requests for one change request: the answer was cut twice.
ThreeRequests ==
    /\ CompletionReturned
    /\ completion.current_messages[2].content = "ai_prompt"
    /\ completion.requests = 3
    /\ completion.value = <<"{", "a:b", "}">>

(***************************************************************************)
(* SpecCache: the delivery of responses (send_response and                 *)
(* send_response_edit) and the download of a cached response               *)
(* (callback_download_response).  A response is a sequence of lexemes: a   *)
(* word "a" or a bold word "**a**".  Every call of the Telegram API may    *)
(* raise.                                                                  *)
(***************************************************************************)
MaxHandled == 2     \* handler runs

\* MAX_TELEGRAM_MESSAGE_LENGTH of config.py, scaled to the responses of the
\* model
MAX_TELEGRAM_MESSAGE_LENGTH == 5

\* len() of one lexeme
LexemeLen(lexeme) == IF lexeme = "**a**" THEN 5 ELSE 1

RECURSIVE TextLen(_)
TextLen(text) == IF text = <<>> THEN 0 ELSE LexemeLen(Head(text)) + TextLen(Tail(text))

\* clean_markdown: the bold markers are removed
clean_markdown(text) ==
    [i \in 1..Len(text) |-> IF text[i] = "**a**" THEN "a" ELSE text[i]]

\* A variant of the assignment that keeps one entry only.
CacheStoreEvicting(cache, response_id, text) ==
    [k \in {response_id} |-> text]

\* RESPONSE_CACHE[response_id] = clean_text
CacheStore(cache, response_id, text) ==
    [k \in DOMAIN cache \cup {response_id} |->
        IF k = response_id THEN text ELSE cache[k]]

\* What the user is sent: a text message, a file (with the response id of
\* its download button, 0 for none) or an alert.
TextMessage(kind, text) == [kind |-> kind, text |-> text, keyboard |-> 0]
File(kind, text, response_id) == [kind |-> kind, text |-> text, keyboard |-> response_id]
Alert(text) == [kind |-> "alert", text |-> <<text>>, keyboard |-> 0]

\* which calls of the Telegram API succeed during one handler run
TelegramOutcomes ==
    [html : BOOLEAN, plain : BOOLEAN, delete : BOOLEAN, docx : BOOLEAN, txt : BOOLEAN]

\* A run of a handler and the facts about what it was given: whether the
\* response is longer than a message may be, whether it could be sent as a
\* message, and whether the status message could be deleted.
Run(handler, response, o) ==
    [result |-> handler,
     oversized |-> TextLen(response) > MAX_TELEGRAM_MESSAGE_LENGTH,
     undeliverable |-> ~o.html /\ ~o.plain,
     status_deleted |-> o.delete]

\* The branch for a response that is too long or could not be sent as a
\* message: the clean text is cached, then sent as DOCX with the download
\* button, or as TXT when that fails.
SendAsFile(response, response_id, o) ==
    LET clean_text == clean_markdown(response)
    IN /\ response_cache' = CacheStore(response_cache, response_id, clean_text)
       /\ delivered' =
            IF o.docx THEN Append(delivered, File("docx", clean_text, response_id))
            ELSE IF o.txt THEN Append(delivered, File("txt", clean_text, 0))
            ELSE delivered

send_response(response, response_id, o) ==
    /\ handled < MaxHandled
    /\ response_id \notin DOMAIN response_cache
    /\ handled' = handled + 1
    /\ last_run' = Run("send_response", response, o)
    /\ IF TextLen(response) <= MAX_TELEGRAM_MESSAGE_LENGTH
       THEN IF o.html
            THEN /\ delivered' = Append(delivered, TextMessage("html", response))
                 /\ UNCHANGED response_cache
            ELSE IF o.plain
            THEN /\ delivered' = Append(delivered, TextMessage("plain", response))
                 /\ UNCHANGED response_cache
            ELSE SendAsFile(response, response_id, o)
       ELSE SendAsFile(response, response_id, o)
    /\ UNCHANGED <<pvars, evars, jvars, svars, rvars, xvars, tvars, gvars,
                   mvars>>

\* The same with the status message: it is edited, or deleted before the
\* file is sent; when the deletion raises, nothing else happens.
send_response_edit(response, response_id, o) ==
    /\ handled < MaxHandled
    /\ response_id \notin DOMAIN response_cache
    /\ handled' = handled + 1
    /\ last_run' = Run("send_response_edit", response, o)
    /\ IF TextLen(response) <= MAX_TELEGRAM_MESSAGE_LENGTH /\ o.html
       THEN /\ delivered' = Append(delivered, TextMessage("html", response))
            /\ UNCHANGED response_cache
       ELSE IF TextLen(response) <= MAX_TELEGRAM_MESSAGE_LENGTH /\ o.plain
       THEN /\ delivered' = Append(delivered, TextMessage("plain", response))
            /\ UNCHANGED response_cache
       ELSE IF ~o.delete
       THEN UNCHANGED <<delivered, response_cache>>
       ELSE SendAsFile(response, response_id, o)
    /\ UNCHANGED <<pvars, evars, jvars, svars, rvars, xvars, tvars, gvars,
                   mvars>>

\* edit_reply_markup(reply_markup=None) on the message of the button
WithoutKeyboard(messages, m) ==
    IF m = 0 THEN messages
    ELSE [messages EXCEPT ![m] = [messages[m] EXCEPT !.keyboard = 0]]

\* A press of a download button of message m (0: a message of an earlier
\* run of the process) with callback data "dl:<format_type>:<response_id>".
callback_download_response(m, format_type, response_id, reply_ok, edit_ok) ==
    /\ handled < MaxHandled
    /\ handled' = handled + 1
    /\ last_run' = [result |-> "callback_download_response",
                    oversized |-> FALSE, undeliverable |-> FALSE,
                    status_deleted |-> FALSE]
    /\ m # 0 => delivered[m].keyboard = response_id
    /\ delivered' =
        IF format_type = "malformed"
        THEN Append(delivered, Alert("error"))
        ELSE IF response_id \notin DOMAIN response_cache
        THEN Append(delivered, Alert("not found"))
        ELSE IF format_type # "txt" THEN delivered
        ELSE IF ~reply_ok THEN Append(delivered, Alert("error"))
        ELSE LET file == File("txt", response_cache[response_id], 0)
             IN IF edit_ok
                THEN Append(WithoutKeyboard(delivered, m), file)
                ELSE Append(Append(delivered, file), Alert("error"))
    /\ UNCHANGED response_cache
    /\ UNCHANGED <<pvars, evars, jvars, svars, rvars, xvars, tvars, gvars,
                   mvars>>

\* str(uuid.uuid4()): an identifier; a fresh one is one not yet in the cache
ResponseIds == 1..MaxHandled

Words == {"a", "**a**"}

\* responses below, at and above the length a message may have
Responses ==
    {<<>>, <<"a">>, <<"**a**">>, <<"**a**", "a">>, <<"a", "**a**">>}

InitCache ==
    /\ CacheIdle
    /\ ParagraphIdle /\ EditIdle /\ ParseIdle /\ SessionIdle /\ RenderIdle
    /\ ExtractIdle /\ PromptIdle /\ CompletionIdle /\ ManagerIdle

NextCache ==
    \/ \E r \in Responses : \E id \in ResponseIds : \E o \in TelegramOutcomes :
            send_response(r, id, o)
    \/ \E r \in Responses : \E id \in ResponseIds : \E o \in TelegramOutcomes :
            send_response_edit(r, id, o)
    \/ \E m \in 0..Len(delivered) : \E f \in {"txt", "docx", "malformed"} :
       \E id \in ResponseIds \cup {0} : \E reply_ok \in BOOLEAN :
       \E edit_ok \in BOOLEAN :
            callback_download_response(m, f, id, reply_ok, edit_ok)

SpecCache == InitCache /\ [][NextCache]_vars

\* the last run was a delivery that got as far as the cache: the response
\* was oversized or could not be sent as a message (and the status message,
\* if there is one, could be deleted)
ReachedTheCache(run) ==
    \/ /\ run.result = "send_response"
       /\ run.oversized \/ run.undeliverable
    \/ /\ run.result = "send_response_edit"
       /\ run.oversized \/ run.undeliverable
       /\ run.status_deleted

\* one entry was added under an identifier that was not in the cache
Grows ==
    \E response_id \in DOMAIN response_cache' \ DOMAIN response_cache :
        DOMAIN response_cache' = DOMAIN response_cache \cup {response_id}

TwoEntries ==
    /\ Cardinality(DOMAIN response_cache) = 2
    /\ Len(delivered) = 2
    /\ \A m \in 1..2 : /\ delivered[m].keyboard \in DOMAIN response_cache
                        /\ response_cache[delivered[m].keyboard] = delivered[m].text
    /\ delivered[1].text # delivered[2].text

(***************************************************************************)
(* Properties of overlapping requests in the template session (Spec).      *)
(***************************************************************************)
\* the document after the replacements of a call
EditedBy(doc, c) == edit_docx_with_replacements(doc, c.replacements.items).doc

\* Call i has delivered its result, which is what is stored now, and call j
\* had read the same template as call i before that result was stored.
Overlapped(i, j) ==
    /\ i # j
    /\ calls[i].user = calls[j].user
    /\ calls[i].outcome = "Delivered"
    /\ calls[i].template_doc = calls[j].template_doc
    /\ calls[i].template_name = calls[j].template_name
    /\ calls[i].edited_doc # calls[i].template_doc
    /\ template_docs[calls[i].user] = calls[i].edited_doc
    /\ template_names[calls[i].user] = calls[i].new_filename

\* A template was uploaded after call j read the stored one.
UploadedInFlight(j) ==
    /\ template_docs[calls[j].user].kind = "docx"
    /\ template_names[calls[j].user] \in UploadedNames
    /\ template_names[calls[j].user] # calls[j].template_name

\* C24: no edit is lost.  When a call delivers its result after an
\* overlapping call of the same user has stored its own, the template
\* stored then holds the replacements of both calls (in one order or the
\* other); a template uploaded while the call was in flight stays stored,
\* under its name, when the call delivers.
C24_NoLostEdit ==
    [][\A j \in 1..Len(calls) : Delivers(j) =>
        LET u == calls[j].user
        IN /\ \A i \in 1..Len(calls) : Overlapped(i, j) =>
                template_docs'[u] \in
                    {EditedBy(calls[i].edited_doc, calls[j]),
                     EditedBy(calls[j].edited_doc, calls[i])}
           /\ UploadedInFlight(j) =>
                /\ template_docs'[u] = template_docs[u]
                /\ template_names'[u] = template_names[u]]_vars

\* the first part alone
NoLostEditOfTwoCalls ==
    [][\A j \in 1..Len(calls) : Delivers(j) =>
        \A i \in 1..Len(calls) : Overlapped(i, j) =>
            template_docs'[calls[j].user] \in
                {EditedBy(calls[i].edited_doc, calls[j]),
                 EditedBy(calls[j].edited_doc, calls[i])}]_vars

\* the second part alone
UploadNotOverwritten ==
    [][\A j \in 1..Len(calls) : (Delivers(j) /\ UploadedInFlight(j)) =>
            /\ template_docs'[calls[j].user] = template_docs[calls[j].user]
            /\ template_names'[calls[j].user] = template_names[calls[j].user]]_vars

(***************************************************************************)
(* conversations.ConversationManager for one user.  The methods are        *)
(* operators on a world w = [m |-> the user's entries in the manager's     *)
(* dictionaries, f |-> the user's file]; a method that returns a value     *)
(* gives [w |-> the world after it, value |-> what it returned].  The      *)
(* conversations of a user are a dict, kept as the sequence of its values  *)
(* in insertion order.  A conversation id is the second it was created     *)
(* in ("conv_%Y%m%d_%H%M%S"); 0 stands for None.                           *)
(***************************************************************************)
\* MAX_HISTORY_MESSAGES of config.py, scaled to the conversations of the
\* model
MAX_HISTORY_MESSAGES == 2

DEFAULT_MODEL == "default"

NoConversation == 0
NoPrompt == "None"

Conversation(id, title, messages) ==
    [id |-> id, title |-> title, messages |-> messages]

\* Conversation.to_dict and Conversation.from_dict
to_dict(conv) ==
    [id |-> conv.id, title |-> conv.title,
     messages |-> [i \in 1..Len(conv.messages) |->
                    [role |-> conv.messages[i].role,
                     content |-> conv.messages[i].content]]]

from_dict(data) ==
    Conversation(data.id, data.title,
                 [i \in 1..Len(data.messages) |->
                    Message(data.messages[i].role, data.messages[i].content)])

\* conv_id in self._conversations[user_id]
HasConversation(convs, conv_id) == \E i \in 1..Len(convs) : convs[i].id = conv_id

IndexOf(convs, conv_id) == CHOOSE i \in 1..Len(convs) : convs[i].id = conv_id

\* self._conversations[user_id][conv_id] = conversation: a new key goes to
\* the end, an existing key keeps its place and gets the new value
StoreConversation(convs, conv) ==
    IF HasConversation(convs, conv.id)
    THEN [convs EXCEPT ![IndexOf(convs, conv.id)] = conv]
    ELSE Append(convs, conv)

\* del self._conversations[user_id][conv_id]
DropConversation(convs, conv_id) ==
    LET k == IndexOf(convs, conv_id)
    IN SubSeq(convs, 1, k - 1) \o SubSeq(convs, k + 1, Len(convs))

\* The manager right after construction: the user is in no dictionary.
NewManager ==
    [loaded |-> FALSE, conversations |-> <<>>,
     active_conversation |-> NoConversation, user_model |-> DEFAULT_MODEL,
     custom_prompts |-> <<>>, active_custom_prompt |-> NoPrompt]

\* The user's file: whether it exists, the keys of its JSON object and
\* their values (the values of absent keys are not read).
AbsentFile ==
    [exists |-> FALSE, keys |-> {}, conversations |-> <<>>,
     active_conversation_id |-> NoConversation,
     selected_model |-> DEFAULT_MODEL, custom_prompts |-> <<>>]

\* _load_user_data
load_user_data(w) ==
    IF w.m.loaded THEN w
    ELSE IF w.f.exists
    THEN LET data == w.f
             listed == IF "conversations" \in data.keys
                       THEN data.conversations ELSE <<>>
         IN [w EXCEPT !.m =
                [loaded |-> TRUE,
                 conversations |-> [i \in 1..Len(listed) |-> from_dict(listed[i])],
                 active_conversation |->
                    IF "active_conversation_id" \in data.keys
                    THEN data.active_conversation_id ELSE NoConversation,
                 user_model |->
                    IF "selected_model" \in data.keys
                    THEN data.selected_model ELSE DEFAULT_MODEL,
                 custom_prompts |->
                    IF "custom_prompts" \in data.keys
                    THEN data.custom_prompts ELSE <<>>,
                 active_custom_prompt |-> w.m.active_custom_prompt]]
    ELSE [w EXCEPT !.m.loaded = TRUE,
                   !.m.conversations = <<>>,
                   !.m.active_conversation = NoConversation,
                   !.m.user_model = DEFAULT_MODEL]

\* _save_user_data: the file is rewritten with the three keys of data
save_user_data(w) ==
    [w EXCEPT !.f =
        [exists |-> TRUE,
         keys |-> {"conversations", "active_conversation_id", "selected_model"},
         conversations |-> [i \in 1..Len(w.m.conversations) |->
                                to_dict(w.m.conversations[i])],
         active_conversation_id |-> w.m.active_conversation,
         selected_model |-> w.m.user_model,
         custom_prompts |-> <<>>]]

\* _save_custom_prompts: the object of the file, or {} when there is no
\* file, gets the key "custom_prompts" and is written back
save_custom_prompts(w) ==
    [w EXCEPT !.f.exists = TRUE,
              !.f.keys = w.f.keys \cup {"custom_prompts"},
              !.f.custom_prompts = w.m.custom_prompts]

Returns(w, value) == [w |-> w, value |-> value]

get_user_model(w) ==
    LET l == load_user_data(w) IN Returns(l, l.m.user_model)

set_user_model(w, model) ==
    LET l == load_user_data(w)
    IN save_user_data([l EXCEPT !.m.user_model = model])

get_custom_prompts(w) ==
    LET l == load_user_data(w) IN Returns(l, l.m.custom_prompts)

\* A variant of add_custom_prompt that always has room.
add_custom_prompt_NoLimit(w, prompt) ==
    LET l == load_user_data(w)
        prompts == l.m.custom_prompts
    IN Returns(save_custom_prompts(
                    [l EXCEPT !.m.custom_prompts = Append(prompts, prompt)]),
               Len(prompts) + 1)

add_custom_prompt(w, prompt) ==
    LET l == load_user_data(w)
        prompts == l.m.custom_prompts
    IN IF Len(prompts) < 2
       THEN Returns(save_custom_prompts(
                        [l EXCEPT !.m.custom_prompts = Append(prompts, prompt)]),
                    Len(prompts) + 1)
       ELSE Returns(save_custom_prompts(
                        [l EXCEPT !.m.custom_prompts = Append(Tail(prompts), prompt)]),
                    2)

get_active_custom_prompt(w) == w.m.active_custom_prompt

\* index is 0-based; -1 stands for None
set_active_custom_prompt(w, index) ==
    IF index = -1 THEN [w EXCEPT !.m.active_custom_prompt = NoPrompt]
    ELSE LET g == get_custom_prompts(w)
         IN IF 0 <= index /\ index < Len(g.value)
            THEN [g.w EXCEPT !.m.active_custom_prompt = g.value[index + 1]]
            ELSE g.w

InPrompts(prompts, prompt) == \E i \in 1..Len(prompts) : prompts[i] = prompt

delete_custom_prompt(w, index) ==
    LET prompts == w.m.custom_prompts
    IN IF 0 <= index /\ index < Len(prompts)
       THEN LET rest == SubSeq(prompts, 1, index)
                        \o SubSeq(prompts, index + 2, Len(prompts))
                active == w.m.active_custom_prompt
            IN Returns(save_custom_prompts(
                    [w EXCEPT !.m.custom_prompts = rest,
                              !.m.active_custom_prompt =
                                IF active # NoPrompt /\ ~InPrompts(rest, active)
                                THEN NoPrompt ELSE active]),
                 TRUE)
       ELSE Returns(w, FALSE)

\* A title the caller gave, or the generated one with the count in it
GivenTitle(text) == [text |-> text, count |-> 0]
GeneratedTitle(count) == [text |-> "Conversation #", count |-> count]
NoTitle == [text |-> "", count |-> 0]

NoneReturned == [id |-> NoConversation, title |-> NoTitle, messages |-> <<>>]

get_conversations(w) ==
    LET l == load_user_data(w) IN Returns(l, l.m.conversations)

get_active_conversation(w) ==
    LET l == load_user_data(w)
        active_id == l.m.active_conversation
    IN IF active_id # NoConversation /\ HasConversation(l.m.conversations, active_id)
       THEN Returns(l, l.m.conversations[IndexOf(l.m.conversations, active_id)])
       ELSE Returns(l, NoneReturned)

\* conv_id = f"conv_{datetime.now().strftime('%Y%m%d_%H%M%S')}"
conv_id(now) == now

\* now is the clock second of the call
create_conversation(w, title, now) ==
    LET l == load_user_data(w)
        id == conv_id(now)
        named == IF title = NoTitle
                 THEN GeneratedTitle(Len(l.m.conversations) + 1)
                 ELSE title
        conversation == Conversation(id, named, <<>>)
    IN Returns(save_user_data(
                [l EXCEPT !.m.conversations = StoreConversation(@, conversation),
                          !.m.active_conversation = id]),
               conversation)

set_active_conversation(w, id) ==
    LET l == load_user_data(w)
    IN IF HasConversation(l.m.conversations, id)
       THEN Returns(save_user_data([l EXCEPT !.m.active_conversation = id]),
                    l.m.conversations[IndexOf(l.m.conversations, id)])
       ELSE Returns(l, NoneReturned)

\* A variant of delete_conversation that leaves the active id alone.
delete_conversation_KeepingActive(w, id) ==
    LET l == load_user_data(w)
    IN IF HasConversation(l.m.conversations, id)
       THEN Returns(save_user_data(
                      [l EXCEPT !.m.conversations = DropConversation(@, id)]),
                    TRUE)
       ELSE Returns(l, FALSE)

delete_conversation(w, id) ==
    LET l == load_user_data(w)
    IN IF HasConversation(l.m.conversations, id)
       THEN Returns(save_user_data(
                      [l EXCEPT !.m.conversations = DropConversation(@, id),
                                !.m.active_conversation =
                                    IF @ = id THEN NoConversation ELSE @]),
                    TRUE)
       ELSE Returns(l, FALSE)

clear_conversation(w, id) ==
    LET l == load_user_data(w)
    IN IF HasConversation(l.m.conversations, id)
       THEN Returns(save_user_data(
                      [l EXCEPT !.m.conversations[IndexOf(l.m.conversations, id)].messages
                                    = <<>>]),
                    TRUE)
       ELSE Returns(l, FALSE)

rename_conversation(w, id, new_title) ==
    LET l == load_user_data(w)
    IN IF HasConversation(l.m.conversations, id)
       THEN Returns(save_user_data(
                      [l EXCEPT !.m.conversations[IndexOf(l.m.conversations, id)].title
                                    = new_title]),
                    TRUE)
       ELSE Returns(l, FALSE)

\* A variant of the slice that keeps the oldest messages.
FirstMessages(messages, max_messages) == SubSeq(messages, 1, max_messages)

\* conv.messages[-max_messages:], for 0 <= max_messages < len(conv.messages);
\* the slice [-0:] is the whole list
LastMessages(messages, max_messages) ==
    IF max_messages = 0 THEN messages
    ELSE SubSeq(messages, Len(messages) - max_messages + 1, Len(messages))

add_message(w, role, content, max_messages, now) ==
    LET l == load_user_data(w)
        found == get_active_conversation(l)
        made == IF found.value = NoneReturned
                THEN create_conversation(found.w, NoTitle, now)
                ELSE found
        conv == made.value
        k == IndexOf(made.w.m.conversations, conv.id)
        appended == Append(made.w.m.conversations[k].messages,
                           Message(role, content))
        kept == IF Len(appended) > max_messages
                THEN LastMessages(appended, max_messages)
                ELSE appended
    IN save_user_data([made.w EXCEPT !.m.conversations[k].messages = kept])

get_messages_for_api(w, system_prompt) ==
    LET found == get_active_conversation(w)
    IN Returns(found.w,
               <<Message("system", system_prompt)>>
               \o (IF found.value = NoneReturned THEN <<>>
                   ELSE found.value.messages))

(***************************************************************************)
(* SpecManager: the methods of the manager called in any order for one     *)
(* user, the clock advancing between calls or not, and the process         *)
(* restarting with the file left on disk.                                  *)
(***************************************************************************)
MaxClock == 2
MaxOps == 4

World == [m |-> manager, f |-> user_file]

Call(method, id, result) ==
    [method |-> method, id |-> id, now |-> clock, returned |-> result]

NoCall == [method |-> "none", id |-> NoConversation, now |-> 0, returned |-> FALSE]

ConversationIds == 1..MaxClock
Titles == {NoTitle, GivenTitle("t")}
SelectableModels == {"gpt-4o", "gpt-5.2-pro"}
Prompts == {"p1", "p2"}
PromptIndexes == -1..1
Contents2 == {"q", "r"}

InitManager ==
    /\ manager = NewManager
    /\ user_file = AbsentFile
    /\ clock = 1
    /\ ops = 0
    /\ chats = <<>>
    /\ last_call = NoCall
    /\ ParagraphIdle /\ EditIdle /\ ParseIdle /\ SessionIdle /\ RenderIdle
    /\ ExtractIdle /\ PromptIdle /\ CompletionIdle /\ CacheIdle

\* What every call of a method does to the variables: the world after it
\* and the record of the call.
MethodCalled(after, call) ==
    /\ ops < MaxOps
    /\ ops' = ops + 1
    /\ manager' = after.m
    /\ user_file' = after.f
    /\ last_call' = call
    /\ UNCHANGED <<clock, chats, pvars, evars, jvars, svars, rvars, xvars,
                   tvars, gvars, cvars>>

Tick ==
    /\ clock < MaxClock
    /\ clock' = clock + 1
    /\ UNCHANGED <<manager, user_file, ops, chats, last_call, pvars, evars,
                   jvars, svars, rvars, xvars, tvars, gvars, cvars>>

\* The process starts again: a new manager, the same file.
Restart ==
    /\ manager # NewManager
    /\ MethodCalled([m |-> NewManager, f |-> user_file], Call("restart", NoConversation, FALSE))

CreateConversation(title) ==
    LET r == create_conversation(World, title, clock)
    IN MethodCalled(r.w, Call("create_conversation", r.value.id, TRUE))

SetActiveConversation(id) ==
    LET r == set_active_conversation(World, id)
    IN MethodCalled(r.w, Call("set_active_conversation", id, r.value # NoneReturned))

DeleteConversation(id) ==
    LET r == delete_conversation(World, id)
    IN MethodCalled(r.w, Call("delete_conversation", id, r.value))

ClearConversation(id) ==
    LET r == clear_conversation(World, id)
    IN MethodCalled(r.w, Call("clear_conversation", id, r.value))

RenameConversation(id) ==
    LET r == rename_conversation(World, id, GivenTitle("n"))
    IN MethodCalled(r.w, Call("rename_conversation", id, r.value))

\* What this manager answers about the user, reading the file first if it
\* has not yet
InMemory == load_user_data(World).m

\* The messages of the active conversation, none when there is no active
\* conversation
ActiveMessages(m) ==
    IF m.active_conversation # NoConversation
       /\ HasConversation(m.conversations, m.active_conversation)
    THEN m.conversations[IndexOf(m.conversations, m.active_conversation)].messages
    ELSE <<>>

\* The record of a call of add_message: the message, and what the manager
\* held when it was called.
AddMessageCall(role, content) ==
    [method |-> "add_message", id |-> InMemory.active_conversation,
     now |-> clock, returned |-> TRUE,
     message |-> Message(role, content),
     had |-> ActiveMessages(InMemory)]

AddMessage(content) ==
    LET role == IF content = "q" THEN "user" ELSE "assistant"
    IN MethodCalled(add_message(World, role, content, MAX_HISTORY_MESSAGES, clock),
                    AddMessageCall(role, content))

SetUserModel(model) ==
    MethodCalled(set_user_model(World, model), Call("set_user_model", NoConversation, TRUE))

\* The record of a call of add_custom_prompt: the prompt, the value
\* returned, and the prompts the manager held when it was called.
AddCustomPromptCall(prompt, value) ==
    [method |-> "add_custom_prompt", id |-> value, now |-> clock,
     returned |-> TRUE, prompt |-> prompt, had |-> InMemory.custom_prompts]

AddCustomPrompt(prompt) ==
    LET r == add_custom_prompt(World, prompt)
    IN MethodCalled(r.w, AddCustomPromptCall(prompt, r.value))

DeleteCustomPrompt(index) ==
    LET r == delete_custom_prompt(World, index)
    IN MethodCalled(r.w, Call("delete_custom_prompt", index, r.value))

SetActiveCustomPrompt(index) ==
    MethodCalled(set_active_custom_prompt(World, index),
           Call("set_active_custom_prompt", index, TRUE))

NextManager ==
    \/ Tick
    \/ Restart
    \/ \E title \in Titles : CreateConversation(title)
    \/ \E id \in ConversationIds : SetActiveConversation(id)
    \/ \E id \in ConversationIds : DeleteConversation(id)
    \/ \E id \in ConversationIds : ClearConversation(id)
    \/ \E id \in ConversationIds : RenameConversation(id)
    \/ \E content \in Contents2 : AddMessage(content)
    \/ \E model \in SelectableModels : SetUserModel(model)
    \/ \E prompt \in Prompts : AddCustomPrompt(prompt)
    \/ \E index \in 0..1 : DeleteCustomPrompt(index)
    \/ \E index \in PromptIndexes : SetActiveCustomPrompt(index)

SpecManager == InitManager /\ [][NextManager]_vars

\* A fresh manager reading the user's file
FreshManager == load_user_data([m |-> NewManager, f |-> user_file]).m


Observed(m) ==
    [conversations |-> m.conversations,
     active_conversation |-> m.active_conversation,
     user_model |-> m.user_model,
     custom_prompts |-> m.custom_prompts]

ManagerTypeOK ==
    /\ manager.loaded \in BOOLEAN
    /\ Len(manager.conversations) <= MaxClock
    /\ Len(manager.custom_prompts) <= 2
    /\ clock \in 1..MaxClock

\* The step just taken was a call of the method
JustCalled(method) == ops' # ops /\ last_call'.method = method

\* C26: persistence round trip: a fresh manager loading the user's file
\* observes the conversations with their messages, the active conversation
\* id, the selected model and the custom prompts of the manager in memory.
C26_PersistenceRoundTrip ==
    manager.loaded => Observed(FreshManager) = Observed(manager)

\* The part of the round trip that the file keeps: what _save_user_data
\* writes is what _load_user_data reads.
ConversationsRoundTrip ==
    manager.loaded =>
        /\ FreshManager.conversations = manager.conversations
        /\ FreshManager.active_conversation = manager.active_conversation
        /\ FreshManager.user_model = manager.user_model

\* A prompt is in memory and the file has lost the key.
PromptsLost ==
    /\ manager.loaded
    /\ manager.custom_prompts # <<>>
    /\ "custom_prompts" \notin user_file.keys

SameMessages(before, after) ==
    \A i \in 1..Len(before) :
        /\ HasConversation(after, before[i].id)
        /\ after[IndexOf(after, before[i].id)].messages = before[i].messages

\* C27: every call of create_conversation makes the count of the user's
\* conversations grow by one, the new id differs from every existing id
\* and is the active one, and every existing conversation keeps its
\* messages.
C27_CreateAddsOne ==
    [][JustCalled("create_conversation") =>
        /\ Len(manager'.conversations) = Len(InMemory.conversations) + 1
        /\ ~HasConversation(InMemory.conversations, last_call'.id)
        /\ manager'.active_conversation = last_call'.id
        /\ SameMessages(InMemory.conversations, manager'.conversations)]_vars

\* The same for the calls in a second in which no existing conversation
\* was created.
CreateInNewSecondAddsOne ==
    [][(JustCalled("create_conversation")
        /\ ~HasConversation(InMemory.conversations, clock)) =>
        /\ Len(manager'.conversations) = Len(InMemory.conversations) + 1
        /\ manager'.active_conversation = last_call'.id
        /\ SameMessages(InMemory.conversations, manager'.conversations)]_vars

\* Two conversations exist after a call of create_conversation.
CreatedSecond ==
    /\ last_call.method = "create_conversation"
    /\ Len(manager.conversations) = 2

ActiveExists(m) ==
    \/ m.active_conversation = NoConversation
    \/ HasConversation(m.conversations, m.active_conversation)

\* C28: the active conversation id is None or the id of a conversation of
\* the user; deleting the active conversation resets it to None, deleting
\* another leaves it unchanged, and set_active_conversation with an
\* unknown id changes nothing and returns None.
C28_ActiveExists ==
    /\ [](ActiveExists(InMemory))
    /\ [][/\ (JustCalled("delete_conversation") /\ last_call'.returned) =>
                manager'.active_conversation =
                    IF InMemory.active_conversation = last_call'.id
                    THEN NoConversation
                    ELSE InMemory.active_conversation
          /\ (JustCalled("set_active_conversation")
              /\ ~HasConversation(InMemory.conversations, last_call'.id)) =>
                /\ ~last_call'.returned
                /\ manager' = InMemory
                /\ user_file' = user_file]_vars

\* The active conversation was deleted while another remains, and a
\* message has been added since.
C28_Witness ==
    /\ last_call.method = "delete_conversation"
    /\ last_call.returned
    /\ manager.active_conversation = NoConversation
    /\ Len(manager.conversations) = 1
    /\ manager.conversations[1].messages # <<>>

\* set_active_conversation was called with an id no conversation has.
UnknownIdGiven ==
    /\ last_call.method = "set_active_conversation"
    /\ ~last_call.returned
    /\ manager.conversations # <<>>

(***************************************************************************)
(* SpecChat: handle_text in the normal chat flow.  A call adds the user's  *)
(* text to the history and builds the request (lines 1634-1645), awaits    *)
(* get_chat_response and the reaction, and then adds the response (line    *)
(* 1656); between the two the event loop runs the other handlers of the    *)
(* user: another text, the button of a new conversation, the choice of a   *)
(* conversation, the confirmation of a deletion.                           *)
(***************************************************************************)
MaxChats == 2

SYSTEM_PROMPT == "system prompt"

Question(i) == <<"q", i>>
Answer(i) == <<"r", i>>

InitChat ==
    /\ manager = NewManager
    /\ user_file = AbsentFile
    /\ clock = 1
    /\ ops = 0
    /\ chats = <<>>
    /\ last_call = NoCall
    /\ ParagraphIdle /\ EditIdle /\ ParseIdle /\ SessionIdle /\ RenderIdle
    /\ ExtractIdle /\ PromptIdle /\ CompletionIdle /\ CacheIdle

\* What a step of a handler does to the variables
HandlerStep(after, call, in_flight) ==
    /\ ops < MaxOps
    /\ ops' = ops + 1
    /\ manager' = after.m
    /\ user_file' = after.f
    /\ last_call' = call
    /\ chats' = in_flight
    /\ UNCHANGED <<clock, pvars, evars, jvars, svars, rvars, xvars,
                   tvars, gvars, cvars>>

\* handle_text up to the await of get_chat_response
ChatAsk ==
    /\ Len(chats) < MaxChats
    /\ LET user_text == Question(Len(chats) + 1)
           added == add_message(World, "user", user_text,
                                MAX_HISTORY_MESSAGES, clock)
           custom_prompt == get_active_custom_prompt(added)
           system_prompt == IF custom_prompt # NoPrompt
                            THEN <<SYSTEM_PROMPT, custom_prompt>>
                            ELSE <<SYSTEM_PROMPT>>
           messages == get_messages_for_api(added, system_prompt)
           model == get_user_model(messages.w)
       IN HandlerStep(model.w, Call("handle_text", Len(chats) + 1, TRUE),
                      Append(chats,
                             [pc |-> "awaiting",
                              user_text |-> user_text,
                              asked_in |-> added.m.active_conversation,
                              asked |-> added.m,
                              messages |-> messages.value,
                              model |-> model.value,
                              response |-> <<>>]))

\* handle_text from the response of get_chat_response on
ChatAnswer(i) ==
    /\ chats[i].pc = "awaiting"
    /\ LET response == Answer(i)
       IN HandlerStep(add_message(World, "assistant", response,
                                  MAX_HISTORY_MESSAGES, clock),
                      Call("response", i, TRUE),
                      [chats EXCEPT ![i].pc = "answered",
                                    ![i].response = response])

\* btn_new_conversation
NewConversationButton ==
    LET r == create_conversation(World, NoTitle, clock)
    IN HandlerStep(r.w, Call("btn_new_conversation", r.value.id, TRUE), chats)

\* callback_select_conversation
SelectConversation(id) ==
    LET r == set_active_conversation(World, id)
    IN HandlerStep(r.w, Call("callback_select_conversation", id,
                             r.value # NoneReturned), chats)

\* callback_confirm_delete
ConfirmDelete(id) ==
    LET deleted == delete_conversation(World, id)
        left == get_conversations(deleted.w)
        after == IF deleted.value /\ left.value = <<>>
                 THEN create_conversation(left.w, GivenTitle("New conversation"),
                                          clock).w
                 ELSE deleted.w
    IN HandlerStep(after, Call("callback_confirm_delete", id, deleted.value),
                   chats)

NextChat ==
    \/ Tick
    \/ ChatAsk
    \/ \E i \in 1..Len(chats) : ChatAnswer(i)
    \/ NewConversationButton
    \/ \E id \in ConversationIds : SelectConversation(id)
    \/ \E id \in ConversationIds : ConfirmDelete(id)

SpecChat == InitChat /\ [][NextChat]_vars

\* The response of the call is in the conversation, directly after the
\* text of the call.
RepliedIn(call, conversations) ==
    /\ HasConversation(conversations, call.asked_in)
    /\ LET messages == conversations[IndexOf(conversations, call.asked_in)].messages
       IN \E k \in 1..(Len(messages) - 1) :
            /\ messages[k] = Message("user", call.user_text)
            /\ messages[k + 1] = Message("assistant", call.response)

\* C25: the assistant's reply is appended to the conversation that
\* received the user's message, directly after it, whatever the user did
\* while the call of the LLM was in flight.
C25_ReplyFollowsQuestion ==
    [][JustCalled("response") =>
        RepliedIn(chats'[last_call'.id], manager'.conversations)]_vars

\* The same for the calls during which no other handler touched the
\* manager.
UndisturbedReplyFollowsQuestion ==
    [][(JustCalled("response") /\ manager = chats[last_call'.id].asked) =>
        RepliedIn(chats'[last_call'.id], manager'.conversations)]_vars

\* A response arrived after the user had pressed the button of a new
\* conversation.
AnsweredElsewhere ==
    \E i \in 1..Len(chats) :
        /\ chats[i].pc = "answered"
        /\ manager.active_conversation # chats[i].asked_in
        /\ HasConversation(manager.conversations, chats[i].asked_in)

\* The response of a call goes to the conversation that received its text,
\* wherever in it.
ReplyStaysInConversation ==
    [][JustCalled("response") =>
        LET call == chats'[last_call'.id]
            conversations == manager'.conversations
        IN /\ HasConversation(conversations, call.asked_in)
           /\ \E k \in 1..Len(conversations[IndexOf(conversations, call.asked_in)].messages) :
                conversations[IndexOf(conversations, call.asked_in)].messages[k]
                    = Message("assistant", call.response)]_vars

\* The structure of the stored bytes can be extracted: python-docx opens
\* them (get_docx_structure_for_ai raises on bytes that are no document).
Parseable(doc) == doc.kind = "docx"

\* C29: in template mode an upload becomes the stored template only if it
\* is a .docx whose structure can be extracted, so the stored template is
\* always parseable and no change request starts from an unparseable one.
C29_StoredTemplateParseable ==
    /\ \A u \in Users :
            get_template_doc(u) # NoDoc => Parseable(get_template_doc(u))
    /\ \A i \in 1..Len(calls) :
            calls[i].template_doc # NoDoc => Parseable(calls[i].template_doc)

\* A stored template always has a name that ends in .docx, whatever its
\* bytes are.
StoredNameEndsWithDocx ==
    \A u \in Users :
        get_template_doc(u) # NoDoc => EndsWithDocx(get_template_name(u))

\* A change request ran against a stored template that cannot be parsed.
RequestAgainstCorrupt ==
    \E i \in 1..Len(calls) :
        /\ calls[i].template_doc = CorruptBytes
        /\ calls[i].outcome = Raised

\* The completion of the call has arrived and was interpreted.
Interpreted(c) == c.ai_response # <<>>

\* The interpreter stopped the call with one of its three messages.
InterpreterError(c) ==
    /\ c.outcome \in {"UnparseableResponse", "AmbiguousRequest",
                      "NoChangesIdentified"}
    /\ c.engine = NotCalled

\* The call went on to edit_docx_with_replacements.
EditAttempted(c) == c.pc \in {"applying", "delivering"} \/ c.engine # NotCalled

\* A JSON object all of whose values are strings
StringMapping(value) ==
    /\ value.kind = "dict"
    /\ \A k \in 1..Len(value.items) : value.items[k].new # NotAString

\* C30: every interpreted response ends in UnparseableResponse,
\* AmbiguousRequest, NoChangesIdentified or an edit attempt with a mapping
\* from strings to strings; valid JSON that is no object, or an object with
\* values that are no strings, gets one of the three messages and raises
\* nothing.
C30_FourOutcomes ==
    \A i \in 1..Len(calls) :
        Interpreted(calls[i]) =>
            \/ InterpreterError(calls[i])
            \/ EditAttempted(calls[i]) /\ StringMapping(calls[i].replacements)

\* The same for the responses that hold no JSON value or an object whose
\* values are strings.
FourOutcomesOfStringMappings ==
    \A i \in 1..Len(calls) :
        (/\ Interpreted(calls[i])
         /\ calls[i].replacements = PyNone \/ StringMapping(calls[i].replacements)) =>
            \/ InterpreterError(calls[i])
            \/ EditAttempted(calls[i])

\* A response that is a JSON number made the test for the reserved key
\* raise.
NumberRaised ==
    \E i \in 1..Len(calls) :
        /\ calls[i].replacements = PyNumber
        /\ calls[i].outcome = Raised
        /\ calls[i].engine = NotCalled

\* An object with a value that is no string reached the edit.
NonStringValueEdited ==
    \E i \in 1..Len(calls) :
        /\ EditAttempted(calls[i])
        /\ ~StringMapping(calls[i].replacements)

\* The call takes the chat-completions path.
OnChatPath == completion.api = "chat"

\* The service raised on the last request.
ServiceRaised ==
    /\ completion.received # <<>>
    /\ completion.received[Len(completion.received)].kind = "raises"

\* What get_chat_response returns is a string: a text of lexemes, one of
\* the fixed messages included.
IsString(value) == value \in Seq({"{", "}", "a:b"}) \cup
                        {NoAnswer, TooManyIterations, OpenAIError}
                        \cup {EmptyAnswer(f) : f \in FinishReasons}

\* C31: on the chat-completions path get_chat_response makes at most three
\* requests, has returned once the third is answered, returns a string,
\* and returns the error string when the service raises.
C31_ReturnsWithinThreeRequests ==
    OnChatPath =>
        /\ completion.requests <= MaxIterations
        /\ completion.requests = Len(completion.received)
        /\ completion.requests = MaxIterations => CompletionReturned
        /\ CompletionReturned => IsString(completion.value)
        /\ ServiceRaised =>
                CompletionReturned /\ completion.value = OpenAIError

\* The third request was answered with a cut text and the call returned;
\* or the service raised on a retry.
C31_Witness ==
    /\ OnChatPath
    /\ CompletionReturned
    /\ completion.requests = MaxIterations
    /\ completion.received[MaxIterations].finish_reason = "length"

RaisedOnRetry ==
    /\ OnChatPath
    /\ ServiceRaised
    /\ completion.requests = 2
    /\ completion.value = OpenAIError

\* The contents received in the iterations, one after the other
RECURSIVE ConcatContents(_)
ConcatContents(received) ==
    IF received = <<>> THEN <<>>
    ELSE (IF Head(received).kind = "choice" THEN Head(received).content ELSE <<>>)
         \o ConcatContents(Tail(received))

Finished(response, finish_reason) ==
    response.kind = "choice" /\ response.finish_reason = finish_reason

LastReceived == completion.received[Len(completion.received)]

\* The call returns at the first finish reason "stop".
ReturnsAtStop ==
    \A k \in 1..Len(completion.received) :
        Finished(completion.received[k], "stop") =>
            k = Len(completion.received) /\ CompletionReturned

\* After a cut answer with content the next request is the previous one
\* with that content as a trailing assistant message.
CarriesPartialContent ==
    \A k \in 1..(Len(completion.sent) - 1) :
        (Finished(completion.received[k], "length")
         /\ completion.received[k].content # <<>>) =>
            completion.sent[k + 1].messages =
                Append(completion.sent[k].messages,
                       Message("assistant", completion.received[k].content))

\* Three iterations without "stop": the accumulated text, or the fixed
\* message when there is none.
ExhaustedResult ==
    (/\ CompletionReturned
     /\ completion.requests = MaxIterations
     /\ Finished(LastReceived, "length")) =>
        completion.value =
            IF ConcatContents(completion.received) # <<>>
            THEN ConcatContents(completion.received)
            ELSE TooManyIterations

\* C32: when contents were received, the text returned is their
\* concatenation, in order, over all iterations up to the exit; the call
\* returns at the first "stop"; a cut answer with content goes into the
\* next request as a trailing assistant message; three iterations without
\* "stop" return the accumulated text, or the fixed message when nothing
\* was accumulated.
C32_AutoContinueResult ==
    OnChatPath =>
        /\ (CompletionReturned /\ ConcatContents(completion.received) # <<>>) =>
                completion.value = ConcatContents(completion.received)
        /\ ReturnsAtStop
        /\ CarriesPartialContent
        /\ ExhaustedResult

\* The same for the calls in which the service raised on no request.
AutoContinueResultOfAnswers ==
    OnChatPath =>
        /\ (/\ CompletionReturned
            /\ ~ServiceRaised
            /\ ConcatContents(completion.received) # <<>>) =>
                completion.value = ConcatContents(completion.received)
        /\ ReturnsAtStop
        /\ CarriesPartialContent
        /\ ExhaustedResult

\* Text was accumulated, then the service raised: the call returned the
\* error string and the text is gone.
AccumulatedTextLost ==
    /\ OnChatPath
    /\ CompletionReturned
    /\ ServiceRaised
    /\ ConcatContents(completion.received) # <<>>
    /\ completion.value = OpenAIError

IsSystemMessage(m) == m.role = "system"
IsOtherMessage(m) == m.role # "system"

\* The last two elements of a list, or all of it when it has fewer
LastTwo(list) ==
    IF Len(list) > 2 THEN <<list[Len(list) - 1], list[Len(list)]>> ELSE list

\* Nothing was accumulated before request k, and the answer to request
\* k - 1 was empty and cut.
FollowsEmptyLength(k) ==
    /\ k > 1
    /\ Finished(completion.received[k - 1], "length")
    /\ completion.received[k - 1].content = <<>>
    /\ ConcatContents(SubSeq(completion.received, 1, k - 1)) = <<>>

\* C33: a request is pruned only on a retry that follows an empty "length"
\* answer with nothing accumulated; a pruned request is the system messages
\* of the caller's list followed by its last two other messages, in their
\* order, so it ends with the caller's last message; and no step changes
\* the length of the caller's list.
C33_PruningOnlyOnEmptyLength ==
    /\ [](OnChatPath =>
            \A k \in 1..Len(completion.sent) :
                /\ completion.sent[k].pruned <=> FollowsEmptyLength(k)
                /\ completion.sent[k].pruned =>
                    /\ completion.sent[k].messages =
                         SelectSeq(completion.messages, IsSystemMessage)
                         \o LastTwo(SelectSeq(completion.messages, IsOtherMessage))
                    /\ completion.sent[k].messages[Len(completion.sent[k].messages)]
                         = completion.messages[Len(completion.messages)])
    /\ [][Len(completion'.messages) = Len(completion.messages)]_vars

\* A conversation of three messages was pruned to its last two after an
\* empty cut answer, and the call went on.
C33_Witness ==
    /\ OnChatPath
    /\ Len(completion.messages) = 4
    /\ Len(completion.sent) >= 2
    /\ completion.sent[2].pruned
    /\ Len(completion.sent[2].messages) = 3
    /\ CompletionReturned

\* A request after a cut answer with content is not pruned.
NotPrunedAfterContent ==
    /\ OnChatPath
    /\ Len(completion.sent) = 3
    /\ ~completion.sent[2].pruned
    /\ ~completion.sent[3].pruned
    /\ Len(completion.sent[3].messages) = 6

\* The last n elements of a list in their order, all of it when it has
\* fewer
MostRecent(list, n) ==
    LET kept == IF Len(list) < n THEN Len(list) ELSE n
    IN [i \in 1..kept |-> list[Len(list) - kept + i]]

\* C34: after every add_message the active conversation holds at most
\* max_messages messages, the new message is the last one and the retained
\* messages are the most recent ones in their order; without an active
\* conversation one is created, made active and given the message.
C34_HistoryBound ==
    [][JustCalled("add_message") =>
        LET call == last_call'
            kept == ActiveMessages(manager')
        IN /\ manager'.active_conversation # NoConversation
           /\ HasConversation(manager'.conversations, manager'.active_conversation)
           /\ Len(kept) <= MAX_HISTORY_MESSAGES
           /\ kept # <<>> /\ kept[Len(kept)] = call.message
           /\ kept = MostRecent(Append(call.had, call.message), MAX_HISTORY_MESSAGES)
           /\ call.id # NoConversation =>
                manager'.active_conversation = call.id]_vars

\* A message was added to a conversation that was full: the oldest was
\* dropped.
C34_Witness ==
    /\ last_call.method = "add_message"
    /\ Len(last_call.had) = MAX_HISTORY_MESSAGES
    /\ ActiveMessages(manager) = Append(Tail(last_call.had), last_call.message)

\* A message was added while no conversation was active, with another
\* conversation existing.
CreatedForMessage ==
    /\ last_call.method = "add_message"
    /\ last_call.id = NoConversation
    /\ Len(manager.conversations) = 2
    /\ ActiveMessages(manager) = <<last_call.message>>

\* C35: a user has at most 2 custom prompts; adding while 2 exist removes
\* the first and appends the new one as the second, adding otherwise
\* appends; the value returned is the 1-based position of the new prompt.
C35_AtMostTwoPrompts ==
    /\ [](Len(InMemory.custom_prompts) <= 2)
    /\ [][JustCalled("add_custom_prompt") =>
            LET call == last_call'
                prompts == manager'.custom_prompts
            IN /\ prompts = IF Len(call.had) = 2
                            THEN <<call.had[2], call.prompt>>
                            ELSE Append(call.had, call.prompt)
               /\ call.id \in 1..2
               /\ call.id = Len(prompts)
               /\ prompts[call.id] = call.prompt]_vars

\* A third prompt was added: the first is gone and the new one is second.
C35_Witness ==
    /\ last_call.method = "add_custom_prompt"
    /\ Len(last_call.had) = 2
    /\ last_call.had[1] # last_call.had[2]
    /\ manager.custom_prompts = <<last_call.had[2], last_call.prompt>>
    /\ last_call.id = 2

\* A prompt was added after one of two had been deleted.
AddedAfterDelete ==
    /\ last_call.method = "add_custom_prompt"
    /\ Len(last_call.had) = 1
    /\ last_call.id = 2
    /\ ops = MaxOps

\* The active custom prompt is absent or one of the saved prompts.
ActivePromptSaved(m) ==
    \/ m.active_custom_prompt = NoPrompt
    \/ InPrompts(m.custom_prompts, m.active_custom_prompt)

\* set_active_custom_prompt with an index that names no saved prompt
\* changes nothing.
OutOfRangeChangesNothing ==
    [][(/\ JustCalled("set_active_custom_prompt")
        /\ last_call'.id # -1
        /\ ~(0 <= last_call'.id /\ last_call'.id < Len(InMemory.custom_prompts))) =>
            /\ manager' = InMemory
            /\ user_file' = user_file]_vars

\* C36: the active custom prompt is absent or equal to one of the user's
\* saved prompts, so a prompt that was evicted or deleted is not active;
\* set_active_custom_prompt with an out-of-range index changes nothing.
C36_ActivePromptIsSaved ==
    /\ [](ActivePromptSaved(manager))
    /\ OutOfRangeChangesNothing

\* delete_custom_prompt leaves no deleted prompt active.
DeleteKeepsActiveSaved ==
    [][(JustCalled("delete_custom_prompt") /\ ActivePromptSaved(manager)) =>
            ActivePromptSaved(manager')]_vars

\* The active prompt was the first of two and a third prompt was added.
EvictedPromptActive ==
    /\ last_call.method = "add_custom_prompt"
    /\ Len(last_call.had) = 2
    /\ manager.active_custom_prompt = last_call.had[1]
    /\ ~InPrompts(manager.custom_prompts, manager.active_custom_prompt)

(***************************************************************************)
(* SpecCustomPrompts: the custom prompts as the handlers use the manager.  *)
(* process_custom_prompt activates the prompt it has just added, with no   *)
(* await between the two calls.                                            *)
(***************************************************************************)
\* process_custom_prompt
ProcessCustomPrompt(prompt) ==
    LET added == add_custom_prompt(World, prompt)
        index == added.value
    IN MethodCalled(set_active_custom_prompt(added.w, index - 1),
                    AddCustomPromptCall(prompt, index))

\* callback_toggle_prompt
TogglePrompt(index) ==
    LET prompts == get_custom_prompts(World)
        active == get_active_custom_prompt(prompts.w)
    IN MethodCalled(
            IF 0 <= index /\ index < Len(prompts.value)
            THEN IF prompts.value[index + 1] = active
                 THEN set_active_custom_prompt(prompts.w, -1)
                 ELSE set_active_custom_prompt(prompts.w, index)
            ELSE prompts.w,
            Call("callback_toggle_prompt", index, TRUE))

\* callback_delete_prompt
DeletePrompt(index) ==
    LET r == delete_custom_prompt(World, index)
    IN MethodCalled(r.w, Call("callback_delete_prompt", index, r.value))

\* callback_disable_custom_prompt
DisableCustomPrompt ==
    MethodCalled(get_custom_prompts(set_active_custom_prompt(World, -1)).w,
                 Call("callback_disable_custom_prompt", -1, TRUE))

NextCustomPrompts ==
    \/ Restart
    \/ \E prompt \in Prompts : ProcessCustomPrompt(prompt)
    \/ \E index \in 0..1 : TogglePrompt(index)
    \/ \E index \in 0..1 : DeletePrompt(index)
    \/ DisableCustomPrompt
    \/ \E model \in SelectableModels : SetUserModel(model)

SpecCustomPrompts == InitManager /\ [][NextCustomPrompts]_vars

\* Through the handlers the active custom prompt is absent or saved.
HandlersKeepActivePromptSaved == ActivePromptSaved(manager)

\* The handler added a third prompt, which evicted the first: the new one
\* is active.
ThirdPromptProcessed ==
    /\ last_call.method = "add_custom_prompt"
    /\ Len(last_call.had) = 2
    /\ last_call.had[1] # last_call.prompt
    /\ manager.active_custom_prompt = last_call.prompt

\* Digits and a dot stand in the line behind a first character that is
\* neither white space nor a digit, as in "### 1. Title".
MarkerInsideLine(line) ==
    LET w == SpacesFrom(line, 1)
    IN /\ w < Len(line)
       /\ ~IsDigit(line[w + 1])
       /\ \E k \in (w + 2)..(Len(line) - 1) : IsDigit(line[k]) /\ line[k + 1] = "."

\* The line starts with digits and a dot, and the dot is followed by a
\* character that is no white space, as in "3.14 is pi".
MarkerGluedToText(line) ==
    LET w == SpacesFrom(line, 1)
        n == DigitsFrom(line, w + 1)
    IN /\ HasMarker(line)
       /\ w + n + 2 <= Len(line)
       /\ ~IsSpace(line[w + n + 2])

\* C37: a line in which digits and a dot are preceded by a character that
\* is no white space, and a line in which they are not followed by white
\* space, come out of the preprocessing unchanged.
C37_OnlyItemLinesNormalized ==
    (/\ Converted
     /\ Len(GivenLines) = 1
     /\ MarkerInsideLine(GivenLines[1]) \/ MarkerGluedToText(GivenLines[1])) =>
        ParsedLines = GivenLines

\* The first half: a line whose digits and dot are behind other text is
\* not changed.
LinesWithInnerMarkerUnchanged ==
    (/\ Converted
     /\ Len(GivenLines) = 1
     /\ MarkerInsideLine(GivenLines[1])) =>
        ParsedLines = GivenLines

\* The line "x 1." went through the preprocessing as it was.
InnerMarkerKept ==
    /\ Converted
    /\ markdown_text = <<"x", " ", "1", ".">>
    /\ converted.markdown = markdown_text

\* The decimal number "2.12" came out as " 1.12".
DecimalNumberChanged ==
    /\ Converted
    /\ markdown_text = <<"2", ".", "1", "2">>
    /\ converted.markdown = <<" ", "1", ".", "1", "2">>

====
